---- MODULE Spec2Model ----
(***************************************************************************)
(* RevoDraw: the drawable-area model, the region classifier, the path-fit  *)
(* engine and the layer editor, as state machines.                         *)
(*                                                                         *)
(* Python floats and JavaScript numbers are modelled as exact rationals    *)
(* <<n, d>> (d > 0, lowest terms); int() and integer division are modelled *)
(* by what they do (truncation toward zero, floor).                        *)
(***************************************************************************)
EXTENDS Integers, Sequences, FiniteSets, TLC

VARIABLES
    area,       \* the DrawingArea instance under test
    areaCall,   \* the last DrawingArea method call: [op, x, y, ret]
    fitCall,    \* the last call of the path-fit engine, its inputs and result
    clsCall,    \* the last call of the region classifier, its inputs and result
    \* the /draw job of the server (revodraw.py)
    drawing,    \* STATE['drawing']: "unset", "on" or "off"
    job,        \* the generator of the running /draw response
    swipes,     \* the adb swipe gestures the job has emitted, in order
    events,     \* the server-sent events the job has yielded, in order
    \* the editor page (revodraw.py, the script of the page)
    layers,             \* sequence of layer records
    activeLayerIndex,   \* 0-based index into layers, -1 when there is none
    processedPaths,     \* [null, paths]: the working path set
    pathsHistory,       \* the undo stack, oldest first
    drawingArea,        \* [null, area]: the detected area
    imageOffset,        \* live transform: <<x, y>> in canvas pixels
    scaleX,
    scaleY,
    rotation,
    flipHorizontal,
    flipVertical,
    pointer,            \* isDragging, dragStart, currentTool and, for the
                        \* gesture under way, how many eraseAt calls it made
                        \* and which of them saved a snapshot
    reprocess,          \* the /process request of reprocessLayer under way and
                        \* the layer object it holds; with it (not program
                        \* state) the identity of each layer and the paths
                        \* each layer was last given by a /process response
    \* history variables of the editor (not program state)
    lastOp,     \* what the last editor operation did
    eraseRun,   \* the working path set before each of the latest consecutive erases
    undoRun,    \* how many undos have followed them with nothing in between
    session     \* layer identities, snapshot owners and the last operation in
                \* full, kept in sessions of bounded length only (SpecLayers)

areaVars == <<area, areaCall>>

fitVars == <<fitCall>>

clsVars == <<clsCall>>

liveVars == <<imageOffset, scaleX, scaleY, rotation, flipHorizontal, flipVertical>>

editVars == <<layers, activeLayerIndex, processedPaths, pathsHistory, drawingArea,
              liveVars, pointer, reprocess, lastOp, eraseRun, undoRun,
              session>>

drawVars == <<drawing, job, swipes, events>>

vars == <<areaVars, fitVars, clsVars, editVars, drawVars>>

(***************************************************************************)
(* Bounds                                                                  *)
(***************************************************************************)
\* device coordinates of the areas of SpecArea range over 0..MaxCoord
MaxCoord == 2

\* source paths of the fit engine have at most MaxPathLen points
MaxPathLen == 2

\* the margins of the concrete scenario range over 0..MaxMargin
MaxMargin == 100

MaxStrength == 2

MaxLines == 2

\* the editor holds at most MaxLayers layers
MaxLayers == 2

\* the latest MaxRun consecutive erases are remembered
MaxRun == 2

\* a /draw request carries at most MaxJobLayers layers
MaxJobLayers == 2

\* a tracked editing session (SpecLayers) has at most MaxOps operations
MaxOps == 3

\* pointer events handled in a session of SpecGesture
MaxEvents == 4

(***************************************************************************)
(* Arithmetic helpers                                                      *)
(***************************************************************************)
Max(a, b) == IF a >= b THEN a ELSE b

Min(a, b) == IF a <= b THEN a ELSE b

Abs(a) == IF a < 0 THEN -a ELSE a

RECURSIVE GCD(_, _)
GCD(a, b) == IF b = 0 THEN a ELSE GCD(b, a % b)

\* the rational n/d in lowest terms with a positive denominator (d # 0)
Rat(n, d) ==
    LET s == IF d < 0 THEN 0 - 1 ELSE 1
        g == GCD(Abs(n), Abs(d))
    IN  <<(s * n) \div g, (s * d) \div g>>

RInt(n) == <<n, 1>>

RAdd(a, b) == Rat(a[1] * b[2] + b[1] * a[2], a[2] * b[2])

RSub(a, b) == Rat(a[1] * b[2] - b[1] * a[2], a[2] * b[2])

RMul(a, b) == Rat(a[1] * b[1], a[2] * b[2])

RDiv(a, b) == Rat(a[1] * b[2], a[2] * b[1])

RNeg(a) == <<0 - a[1], a[2]>>

RLe(a, b) == a[1] * b[2] <= b[1] * a[2]

RLt(a, b) == a[1] * b[2] < b[1] * a[2]

RMin(a, b) == IF RLe(a, b) THEN a ELSE b

\* int(): truncation toward zero
Trunc(a) == IF a[1] >= 0 THEN a[1] \div a[2] ELSE 0 - ((0 - a[1]) \div a[2])

\* int() of the double next to a: d is the sign of the rounding error the
\* double carries (0: none), which matters only when a is an integer
TruncNear(a, d) ==
    IF a[2] = 1 /\ ((a[1] > 0 /\ d < 0) \/ (a[1] < 0 /\ d > 0))
    THEN IF a[1] > 0 THEN a[1] - 1 ELSE a[1] + 1
    ELSE Trunc(a)

(***************************************************************************)
(* DrawingArea (detect_drawing_area.py)                                    *)
(***************************************************************************)
DrawingArea(t, l, r, b, cl, ct, ter, teb) ==
    [top |-> t, left |-> l, right |-> r, bottom |-> b,
     cutout_left |-> cl, cutout_top |-> ct,
     top_excl_right |-> ter, top_excl_bottom |-> teb]

\* is_inside with the top-left test written the wrong way round (mutant)
is_inside_flipped(a, x, y) ==
    IF ~(a.left <= x /\ x <= a.right /\ a.top <= y /\ y <= a.bottom) THEN FALSE
    ELSE IF x >= a.top_excl_right /\ y >= a.top_excl_bottom THEN FALSE
    ELSE IF x >= a.cutout_left /\ y >= a.cutout_top THEN FALSE
    ELSE TRUE

is_inside(a, x, y) ==
    IF ~(a.left <= x /\ x <= a.right /\ a.top <= y /\ y <= a.bottom) THEN FALSE
    ELSE IF x <= a.top_excl_right /\ y <= a.top_excl_bottom THEN FALSE
    ELSE IF x >= a.cutout_left /\ y >= a.cutout_top THEN FALSE
    ELSE TRUE

center(a) ==
    LET main_left == Max(a.left, a.top_excl_right)
        main_top  == Max(a.top, a.top_excl_bottom)
        cx == main_left + ((a.cutout_left - main_left) \div 2)
        cy == main_top + ((a.bottom - main_top) \div 2)
    IN  <<cx, cy>>

\* the margin is taken off the exclusions instead of added to them (mutant)
get_safe_bounds_thin(a, margin) ==
    DrawingArea(a.top + margin, a.left + margin,
                a.right - margin, a.bottom - margin,
                a.cutout_left + margin, a.cutout_top + margin,
                a.top_excl_right - margin, a.top_excl_bottom - margin)

get_safe_bounds(a, margin) ==
    DrawingArea(a.top + margin, a.left + margin,
                a.right - margin, a.bottom - margin,
                a.cutout_left - margin, a.cutout_top - margin,
                a.top_excl_right + margin, a.top_excl_bottom + margin)

\* (x1, y1, x2, y2)
get_usable_rect(a, margin) ==
    <<Max(a.left, a.top_excl_right) + margin,
      Max(a.top, a.top_excl_bottom) + margin,
      a.cutout_left - margin,
      a.bottom - margin>>

\* the data-model invariant of a DrawingArea (spec section 3)
AreaInvariant(a) ==
    /\ a.left < a.top_excl_right /\ a.top_excl_right < a.right
    /\ a.top < a.top_excl_bottom /\ a.top_excl_bottom < a.bottom
    /\ a.left < a.cutout_left /\ a.cutout_left < a.right
    /\ a.top < a.cutout_top /\ a.cutout_top < a.bottom

(***************************************************************************)
(* Path-fit engine, one-shot path (image_draw.py: scale_paths_to_area)     *)
(***************************************************************************)
ImagePaths(paths, w, h) == [paths |-> paths, width |-> w, height |-> h]

\* the points of pts, in order, without any containment test (mutant)
keep_all(a, pts) == pts

\* the points of pts that are inside the drawing area, in order
keep_inside(a, pts) == SelectSeq(pts, LAMBDA q : is_inside(a, q[1], q[2]))

\* the paths left with at least one point, in order (mutant)
drawable_paths_nonempty(kept) == SelectSeq(kept, LAMBDA q : Len(q) >= 1)

\* the paths left with at least two points, in order
drawable_paths(kept) == SelectSeq(kept, LAMBDA q : Len(q) >= 2)

\* the available width always measured over the whole outer rectangle (mutant)
available_width_full(a, margin, use_full_area) == a.right - a.left - 2 * margin

available_width(a, margin, use_full_area) ==
    IF use_full_area
    THEN a.right - a.left - 2 * margin
    ELSE a.cutout_left - a.left - 2 * margin

available_height(a, margin, use_full_area) == a.bottom - a.top - 2 * margin

\* <<scale_x, scale_y>>; src_width and src_height are not 0 here
fit_scale(img, aw, ah, maintain_aspect) ==
    LET rx == RDiv(RInt(aw), RInt(img.width))
        ry == RDiv(RInt(ah), RInt(img.height))
    IN  IF maintain_aspect THEN <<RMin(rx, ry), RMin(rx, ry)>> ELSE <<rx, ry>>

\* where scale_paths_to_area puts the source point p, before the containment test
scale_point(img, a, margin, maintain_aspect, use_full_area, p) ==
    LET aw == available_width(a, margin, use_full_area)
        ah == available_height(a, margin, use_full_area)
        sc == fit_scale(img, aw, ah, maintain_aspect)
        scaled_width  == RMul(RInt(img.width), sc[1])
        scaled_height == RMul(RInt(img.height), sc[2])
        offset_x == RAdd(RInt(a.left + margin),
                         RDiv(RSub(RInt(aw), scaled_width), RInt(2)))
        offset_y == RAdd(RInt(a.top + margin),
                         RDiv(RSub(RInt(ah), scaled_height), RInt(2)))
    IN  <<Trunc(RAdd(offset_x, RMul(RInt(p[1]), sc[1]))),
          Trunc(RAdd(offset_y, RMul(RInt(p[2]), sc[2])))>>

\* the double src * (avail / src) against avail, for the sizes SpecCentre
\* uses: 1 when it is the next double above avail, -1 when it is the next one
\* below, 0 when it is avail
product_rounding(avail, src) ==
    CASE <<avail, src>> = <<660, 287>> -> 1
      [] <<avail, src>> = <<1960, 100>> -> 1
      [] <<avail, src>> \in {<<920, 100>>, <<920, 200>>, <<1000, 287>>,
                             <<2000, 287>>} -> 0 - 1
      [] OTHER -> 0

\* scale_point in double arithmetic, for a point p of the source frame: on an
\* axis the scaled frame fills, offset_x (offset_y) is left + margin (top +
\* margin) less half of what scaled_width (scaled_height) has above
\* available_width (available_height), and that is where the coordinate 0 is
\* put before int(); the other sums round to their exact values
place_frame_point(img, a, margin, maintain_aspect, use_full_area, p) ==
    LET aw == available_width(a, margin, use_full_area)
        ah == available_height(a, margin, use_full_area)
        sc == fit_scale(img, aw, ah, maintain_aspect)
        scaled_width  == RMul(RInt(img.width), sc[1])
        scaled_height == RMul(RInt(img.height), sc[2])
        offset_x == RAdd(RInt(a.left + margin),
                         RDiv(RSub(RInt(aw), scaled_width), RInt(2)))
        offset_y == RAdd(RInt(a.top + margin),
                         RDiv(RSub(RInt(ah), scaled_height), RInt(2)))
        err_x == IF scaled_width = RInt(aw) /\ p[1] = 0
                 THEN 0 - product_rounding(aw, img.width) ELSE 0
        err_y == IF scaled_height = RInt(ah) /\ p[2] = 0
                 THEN 0 - product_rounding(ah, img.height) ELSE 0
    IN  <<TruncNear(RAdd(offset_x, RMul(RInt(p[1]), sc[1])), err_x),
          TruncNear(RAdd(offset_y, RMul(RInt(p[2]), sc[2])), err_y)>>

\* the result of a fit: raised (an exception left the function), placed (every
\* transformed point, per input path, before the containment test), kept (the
\* surviving points per input path) and paths (the value returned)
FitResult(raised, placed, kept) ==
    [raised |-> raised, placed |-> placed, kept |-> kept,
     paths |-> drawable_paths(kept)]

scale_paths_to_area(img, a, margin, maintain_aspect, use_full_area) ==
    IF img.paths = <<>> THEN FitResult(FALSE, <<>>, <<>>)
    ELSE IF img.width = 0 \/ img.height = 0 THEN FitResult(TRUE, <<>>, <<>>)
    ELSE
        LET placed == [i \in 1..Len(img.paths) |->
                        [j \in 1..Len(img.paths[i]) |->
                            scale_point(img, a, margin, maintain_aspect,
                                        use_full_area, img.paths[i][j])]]
            kept == [i \in 1..Len(placed) |-> keep_inside(a, placed[i])]
        IN  FitResult(FALSE, placed, kept)

(***************************************************************************)
(* Path-fit engine, per-layer path (revodraw.py: draw.generate)            *)
(* Rotations are the multiples of 90 degrees, whose sine and cosine are    *)
(* taken exactly.                                                          *)
(***************************************************************************)
Layer(paths, ox, oy, sx, sy, rot, fh, fv) ==
    [paths |-> paths, offset_x |-> ox, offset_y |-> oy,
     scale_x |-> sx, scale_y |-> sy, rotation |-> rot,
     flip_h |-> fh, flip_v |-> fv]

CosDeg(r) ==
    CASE r % 360 = 0 -> 1 [] r % 360 = 90 -> 0
      [] r % 360 = 180 -> 0 - 1 [] r % 360 = 270 -> 0

SinDeg(r) ==
    CASE r % 360 = 0 -> 0 [] r % 360 = 90 -> 1
      [] r % 360 = 180 -> 0 [] r % 360 = 270 -> 0 - 1

\* the available rectangle of the layer transform and its centre
avail_rect(a) ==
    LET avail_left   == Max(a.left, a.top_excl_right) + 20
        avail_top    == Max(a.top, a.top_excl_bottom) + 20
        avail_right  == a.cutout_left - 20
        avail_bottom == a.bottom - 20
        avail_w == avail_right - avail_left
        avail_h == avail_bottom - avail_top
    IN  [avail_w |-> avail_w, avail_h |-> avail_h,
         center_x |-> RAdd(RInt(avail_left), RDiv(RInt(avail_w), RInt(2))),
         center_y |-> RAdd(RInt(avail_top), RDiv(RInt(avail_h), RInt(2)))]

AllPoints(paths) ==
    UNION {{paths[i][j] : j \in 1..Len(paths[i])} : i \in 1..Len(paths)}

SetMin(S) == CHOOSE m \in S : \A n \in S : m <= n

SetMax(S) == CHOOSE m \in S : \A n \in S : m >= n

\* bounding box, pivot and base scale of one layer's paths (some point exists)
path_bounds(a, paths) ==
    LET xs == {q[1] : q \in AllPoints(paths)}
        ys == {q[2] : q \in AllPoints(paths)}
        w0 == SetMax(xs) - SetMin(xs)
        h0 == SetMax(ys) - SetMin(ys)
        path_w == IF w0 = 0 THEN 1 ELSE w0
        path_h == IF h0 = 0 THEN 1 ELSE h0
        av == avail_rect(a)
    IN  [path_center_x |-> RAdd(RInt(SetMin(xs)), RDiv(RInt(path_w), RInt(2))),
         path_center_y |-> RAdd(RInt(SetMin(ys)), RDiv(RInt(path_h), RInt(2))),
         base_scale |-> RMin(RDiv(RInt(av.avail_w), RInt(path_w)),
                             RDiv(RInt(av.avail_h), RInt(path_h)))]

\* the layer transform with the scale applied before the rotation
transform_point_scale_first(a, layer, p) ==
    LET av == avail_rect(a)
        pb == path_bounds(a, layer.paths)
        x0 == RSub(RInt(p[1]), pb.path_center_x)
        y0 == RSub(RInt(p[2]), pb.path_center_y)
        x1 == IF layer.flip_h THEN RNeg(x0) ELSE x0
        y1 == IF layer.flip_v THEN RNeg(y0) ELSE y0
        x2 == RMul(x1, RMul(pb.base_scale, layer.scale_x))
        y2 == RMul(y1, RMul(pb.base_scale, layer.scale_y))
        cos_r == RInt(CosDeg(layer.rotation))
        sin_r == RInt(SinDeg(layer.rotation))
        x3 == IF layer.rotation # 0
              THEN RSub(RMul(x2, cos_r), RMul(y2, sin_r)) ELSE x2
        y3 == IF layer.rotation # 0
              THEN RAdd(RMul(x2, sin_r), RMul(y2, cos_r)) ELSE y2
        x4 == RAdd(x3, RAdd(av.center_x, layer.offset_x))
        y4 == RAdd(y3, RAdd(av.center_y, layer.offset_y))
    IN  <<Trunc(x4), Trunc(y4)>>

\* where the layer transform puts the source point p, before the containment test
transform_point(a, layer, p) ==
    LET av == avail_rect(a)
        pb == path_bounds(a, layer.paths)
        x0 == RSub(RInt(p[1]), pb.path_center_x)
        y0 == RSub(RInt(p[2]), pb.path_center_y)
        x1 == IF layer.flip_h THEN RNeg(x0) ELSE x0
        y1 == IF layer.flip_v THEN RNeg(y0) ELSE y0
        cos_r == RInt(CosDeg(layer.rotation))
        sin_r == RInt(SinDeg(layer.rotation))
        x2 == IF layer.rotation # 0
              THEN RSub(RMul(x1, cos_r), RMul(y1, sin_r)) ELSE x1
        y2 == IF layer.rotation # 0
              THEN RAdd(RMul(x1, sin_r), RMul(y1, cos_r)) ELSE y1
        x3 == RMul(x2, RMul(pb.base_scale, layer.scale_x))
        y3 == RMul(y2, RMul(pb.base_scale, layer.scale_y))
        x4 == RAdd(x3, RAdd(av.center_x, layer.offset_x))
        y4 == RAdd(y3, RAdd(av.center_y, layer.offset_y))
    IN  <<Trunc(x4), Trunc(y4)>>

\* every point of one layer transformed, per path
transform_layer(a, layer) ==
    [i \in 1..Len(layer.paths) |->
        [j \in 1..Len(layer.paths[i]) |->
            transform_point(a, layer, layer.paths[i][j])]]

\* min() of an empty sequence raises in the bounds computation
layer_raises(layer) == layer.paths # <<>> /\ AllPoints(layer.paths) = {}

\* the layers of layer_list placed with the scale, rotation, flips and offset
\* of the layer params
RECURSIVE placed_with(_, _, _)
placed_with(a, params, layer_list) ==
    IF layer_list = <<>> THEN <<>>
    ELSE (IF Head(layer_list).paths = <<>> THEN <<>>
          ELSE transform_layer(a, [params EXCEPT !.paths = Head(layer_list).paths]))
         \o placed_with(a, params, Tail(layer_list))

\* every layer placed with the parameters of the first layer of the request
generate_placed_shared(a, layer_list) ==
    IF layer_list = <<>> THEN <<>>
    ELSE placed_with(a, Head(layer_list), layer_list)

RECURSIVE generate_placed(_, _)
generate_placed(a, layer_list) ==
    IF layer_list = <<>> THEN <<>>
    ELSE (IF Head(layer_list).paths = <<>> THEN <<>>
          ELSE transform_layer(a, Head(layer_list)))
         \o generate_placed(a, Tail(layer_list))

\* all_scaled_paths of a /draw job over the layer_list of the request
generate_paths(a, layer_list) ==
    IF \E k \in 1..Len(layer_list) : layer_raises(layer_list[k])
    THEN FitResult(TRUE, <<>>, <<>>)
    ELSE
        LET placed == generate_placed(a, layer_list)
            kept == [i \in 1..Len(placed) |-> keep_inside(a, placed[i])]
        IN  FitResult(FALSE, placed, kept)


(***************************************************************************)
(* Region classifier (detect_drawing_area.py)                              *)
(* A line and a cluster are <<position, strength>>; strengths (summed      *)
(* segment lengths) are whole numbers. The fractions of the card           *)
(* dimension are hundredths, compared exactly.                             *)
(***************************************************************************)
\* x put after the last line of the sorted sequence whose position is <= x's
InsertLine(sorted, x) ==
    LET k == Cardinality({i \in 1..Len(sorted) : sorted[i][1] <= x[1]})
    IN  SubSeq(sorted, 1, k) \o <<x>> \o SubSeq(sorted, k + 1, Len(sorted))

RECURSIVE SortFrom(_, _)
SortFrom(sorted, rest) ==
    IF rest = <<>> THEN sorted
    ELSE SortFrom(InsertLine(sorted, Head(rest)), Tail(rest))

\* the lines in the order given (mutant: the sort is forgotten)
unsorted_lines(lines) == lines

\* sorted(lines, key=lambda x: x[0]): stable, ascending by position
sorted_lines(lines) == SortFrom(<<>>, lines)

\* the clusters (sequences of lines) after the sorted lines in rest are added
RECURSIVE GroupFrom(_, _, _)
GroupFrom(clusters, rest, min_gap) ==
    IF rest = <<>> THEN clusters
    ELSE
        LET line == Head(rest)
            last == clusters[Len(clusters)]
        IN  IF line[1] - last[Len(last)][1] < min_gap
            THEN GroupFrom([clusters EXCEPT ![Len(clusters)] = Append(last, line)],
                           Tail(rest), min_gap)
            ELSE GroupFrom(Append(clusters, <<line>>), Tail(rest), min_gap)

RECURSIVE SumOf(_, _)
SumOf(seq, k) == IF seq = <<>> THEN 0 ELSE Head(seq)[k] + SumOf(Tail(seq), k)

\* a cluster reduced to its first line's position (mutant)
reduce_cluster_first(cluster) == <<cluster[1][1], SumOf(cluster, 2)>>

\* (int(mean position), summed strength) of one cluster
reduce_cluster(cluster) ==
    <<Trunc(Rat(SumOf(cluster, 1), Len(cluster))), SumOf(cluster, 2)>>

cluster_lines(lines, min_gap) ==
    IF lines = <<>> THEN <<>>
    ELSE
        LET sl == sorted_lines(lines)
            clusters == GroupFrom(<<<<Head(sl)>>>>, Tail(sl), min_gap)
        IN  [i \in 1..Len(clusters) |-> reduce_cluster(clusters[i])]

\* the clusters whose position lies in [region_start, region_end] hundredths
\* of card_dim, in order
band_candidates(clusters, region_start, region_end, card_dim) ==
    SelectSeq(clusters, LAMBDA c : /\ region_start * card_dim <= 100 * c[1]
                                   /\ 100 * c[1] <= region_end * card_dim)

\* max(candidates, key=strength): the first candidate of greatest strength
strongest(candidates) ==
    LET k == CHOOSE i \in 1..Len(candidates) :
                /\ \A j \in 1..Len(candidates) :
                        candidates[j][2] <= candidates[i][2]
                /\ \A j \in 1..(i - 1) : candidates[j][2] < candidates[i][2]
    IN  candidates[k]

\* the first candidate in the band, whatever its strength (mutant)
find_first_line(clusters, region_start, region_end, card_dim) ==
    LET candidates == band_candidates(clusters, region_start, region_end, card_dim)
    IN  IF candidates = <<>> THEN <<FALSE, 0>> ELSE <<TRUE, candidates[1][1]>>

\* <<found, position>>: found is FALSE where the code returns None
find_boundary_line(clusters, region_start, region_end, card_dim) ==
    LET candidates == band_candidates(clusters, region_start, region_end, card_dim)
    IN  IF candidates = <<>> THEN <<FALSE, 0>>
        ELSE <<TRUE, strongest(candidates)[1]>>

\* int(card_dim * fraction), the fraction in hundredths
estimate(card_dim, hundredths) == (card_dim * hundredths) \div 100

\* the band and the fallback fraction of each semantic slot, in hundredths
SlotTable ==
    [top             |-> [axis |-> "h", lo |-> 0,  hi |-> 15,  est |-> 5],
     bottom          |-> [axis |-> "h", lo |-> 80, hi |-> 100, est |-> 92],
     left            |-> [axis |-> "v", lo |-> 0,  hi |-> 15,  est |-> 7],
     right           |-> [axis |-> "v", lo |-> 85, hi |-> 100, est |-> 94],
     top_excl_bottom |-> [axis |-> "h", lo |-> 10, hi |-> 25,  est |-> 18],
     top_excl_right  |-> [axis |-> "v", lo |-> 12, hi |-> 30,  est |-> 18],
     cutout_top      |-> [axis |-> "h", lo |-> 45, hi |-> 70,  est |-> 58],
     cutout_left     |-> [axis |-> "v", lo |-> 50, hi |-> 75,  est |-> 60]]

SlotNames == DOMAIN SlotTable

\* the card-relative coordinate chosen for one slot
slot_value(slot, h_sorted, v_sorted, card_w, card_h) ==
    LET e == SlotTable[slot]
        clusters == IF e.axis = "h" THEN h_sorted ELSE v_sorted
        card_dim == IF e.axis = "h" THEN card_h ELSE card_w
        found == find_boundary_line(clusters, e.lo, e.hi, card_dim)
    IN  IF found[1] THEN found[2] ELSE estimate(card_dim, e.est)

\* card is <<card_x, card_y, card_w, card_h>>
detect_boundary(h_lines, v_lines, card) ==
    LET h_clusters == cluster_lines(h_lines, 40)
        v_clusters == cluster_lines(v_lines, 40)
        h_sorted == sorted_lines(h_clusters)
        v_sorted == sorted_lines(v_clusters)
        slots == [n \in SlotNames |->
                    slot_value(n, h_sorted, v_sorted, card[3], card[4])]
    IN  [h_clusters |-> h_sorted, v_clusters |-> v_sorted,
         warning |-> (Len(h_sorted) < 3 \/ Len(v_sorted) < 3),
         slots |-> slots,
         area |-> DrawingArea(card[2] + slots.top, card[1] + slots.left,
                              card[1] + slots.right, card[2] + slots.bottom,
                              card[1] + slots.cutout_left,
                              card[2] + slots.cutout_top,
                              card[1] + slots.top_excl_right,
                              card[2] + slots.top_excl_bottom)]

(***************************************************************************)
(* Editor page (revodraw.py, the script of the page)                       *)
(* An editor state e is the record of the page's globals. Numbers that the *)
(* page holds as floats (offsets, scales) are exact rationals.             *)
(***************************************************************************)
canvasWidth == 540

canvasHeight == 600

\* the eraser radius in canvas pixels (the slider is left at its default)
eraserSize == 30

\* the capacity of the undo stack
MaxHistory == 20

Null == [null |-> TRUE, paths |-> <<>>]

Some(paths) == [null |-> FALSE, paths |-> paths]

\* processedPaths || []
OrEmpty(pp) == IF pp.null THEN <<>> ELSE pp.paths

NoArea == [null |-> TRUE, area |-> DrawingArea(0, 0, 0, 0, 0, 0, 0, 0)]

SomeArea(a) == [null |-> FALSE, area |-> a]

\* the layer object pushed by addLayer
NewLayer(name, paths, imageData) ==
    [name |-> name, paths |-> paths, imageData |-> imageData,
     offset |-> <<RInt(0), RInt(0)>>, scaleX |-> RInt(1), scaleY |-> RInt(1),
     rotation |-> 0, flipH |-> FALSE, flipV |-> FALSE, visible |-> TRUE]

\* layers[index] exists (index is 0-based)
HasLayer(e, index) == index >= 0 /\ index < Len(e.layers)

\* only the paths are stored, the live transform is not (mutant)
save_paths_only(e) ==
    IF HasLayer(e, e.activeLayerIndex)
    THEN [e EXCEPT !.layers[e.activeLayerIndex + 1].paths =
                        OrEmpty(e.processedPaths)]
    ELSE e

saveCurrentLayerState(e) ==
    IF HasLayer(e, e.activeLayerIndex)
    THEN [e EXCEPT !.layers[e.activeLayerIndex + 1] =
            [@ EXCEPT !.paths = OrEmpty(e.processedPaths),
                      !.offset = e.imageOffset,
                      !.scaleX = e.scaleX, !.scaleY = e.scaleY,
                      !.rotation = e.rotation,
                      !.flipH = e.flipHorizontal, !.flipV = e.flipVertical]]
    ELSE e

loadLayerState(e, index) ==
    IF HasLayer(e, index)
    THEN LET layer == e.layers[index + 1] IN
         [e EXCEPT !.processedPaths = Some(layer.paths),
                   !.imageOffset = layer.offset,
                   !.scaleX = layer.scaleX, !.scaleY = layer.scaleY,
                   !.rotation = layer.rotation,
                   !.flipHorizontal = layer.flipH,
                   !.flipVertical = layer.flipV]
    ELSE e

selectLayer(e, index) ==
    loadLayerState([saveCurrentLayerState(e) EXCEPT !.activeLayerIndex = index],
                   index)

\* layers.splice(index, 1)
Splice(ls, index) == SubSeq(ls, 1, index) \o SubSeq(ls, index + 2, Len(ls))

\* the active index is left as it was (mutant)
deleteLayer_keeps_index(e, index) ==
    LET ls == Splice(e.layers, index)
        e1 == [e EXCEPT !.layers = ls]
    IN  IF HasLayer(e1, e1.activeLayerIndex)
        THEN loadLayerState(e1, e1.activeLayerIndex)
        ELSE [e1 EXCEPT !.processedPaths = Null]

deleteLayer(e, index) ==
    LET ls == Splice(e.layers, index)
        ai == IF e.activeLayerIndex >= Len(ls) THEN Len(ls) - 1
              ELSE e.activeLayerIndex
        e1 == [e EXCEPT !.layers = ls, !.activeLayerIndex = ai]
    IN  IF ai >= 0 THEN loadLayerState(e1, ai)
        ELSE [e1 EXCEPT !.processedPaths = Null]

addLayer(e, name, paths, imageData) ==
    LET e1 == saveCurrentLayerState(e)
        ls == Append(e1.layers, NewLayer(name, paths, imageData))
    IN  loadLayerState([e1 EXCEPT !.layers = ls,
                                  !.activeLayerIndex = Len(ls) - 1],
                       Len(ls) - 1)

\* processImage after the /process response: the new layer, then the
\* working set
processImage(e, name, paths) ==
    [addLayer(e, name, paths, TRUE) EXCEPT !.processedPaths = Some(paths)]

undoErase(e) ==
    IF Len(e.pathsHistory) > 0
    THEN LET top == e.pathsHistory[Len(e.pathsHistory)]
             e1 == [e EXCEPT !.processedPaths = Some(top),
                             !.pathsHistory = SubSeq(@, 1, Len(@) - 1)]
         IN  IF e.activeLayerIndex >= 0
             THEN [e1 EXCEPT !.layers[e.activeLayerIndex + 1].paths = top]
             ELSE e1
    ELSE e

\* the stack grows without limit (mutant)
history_push_unbounded(history, snapshot) == Append(history, snapshot)

\* push, then shift while the stack is longer than the capacity
history_push(history, snapshot) ==
    LET pushed == Append(history, snapshot)
    IN  IF Len(pushed) > MaxHistory THEN Tail(pushed) ELSE pushed

\* eraseAt returns before doing anything
erase_returns_early(e) ==
    \/ e.activeLayerIndex < 0
    \/ ~HasLayer(e, e.activeLayerIndex)
    \/ e.drawingArea.null
    \/ e.layers[e.activeLayerIndex + 1].paths = <<>>

\* a snapshot is saved only onto an empty stack (mutant)
erase_snapshots_if_empty(e) == Len(e.pathsHistory) = 0

\* eraseAt saves a snapshot: the stack is empty or its top differs
erase_snapshots(e) ==
    \/ Len(e.pathsHistory) = 0
    \/ e.pathsHistory[Len(e.pathsHistory)] # e.layers[e.activeLayerIndex + 1].paths

\* the preview transform of the canvas: [scale, offsetX, offsetY]
preview_transform(a) ==
    LET previewScale ==
            RMul(RMin(Rat(canvasWidth, a.right - a.left + 100),
                      Rat(canvasHeight, a.bottom - a.top + 100)),
                 Rat(9, 10))
    IN  [scale |-> previewScale,
         offsetX |-> RDiv(RSub(RInt(canvasWidth),
                               RMul(RInt(a.right - a.left), previewScale)),
                          RInt(2)),
         offsetY |-> RDiv(RSub(RInt(canvasHeight),
                               RMul(RInt(a.bottom - a.top), previewScale)),
                          RInt(2))]

toggleLayerVisibility(e, index) ==
    [e EXCEPT !.layers[index + 1].visible = ~@]

\* the button that starts a job is enabled
draw_enabled(e) ==
    /\ ~e.drawingArea.null
    /\ \E k \in 1..Len(e.layers) : e.layers[k].visible /\ e.layers[k].paths # <<>>

\* one element of layersToSend: the layer l with its offset in phone pixels
layer_to_send(l, previewScale) ==
    Layer(l.paths, RDiv(l.offset[1], previewScale),
          RDiv(l.offset[2], previewScale), l.scaleX, l.scaleY, l.rotation,
          l.flipH, l.flipV)

\* the layers of sent (stored layers) that are visible and hold a path
RECURSIVE layers_to_send(_, _)
layers_to_send(sent, previewScale) ==
    IF sent = <<>> THEN <<>>
    ELSE (IF Head(sent).visible /\ Head(sent).paths # <<>>
          THEN <<layer_to_send(Head(sent), previewScale)>> ELSE <<>>)
         \o layers_to_send(Tail(sent), previewScale)

\* startDrawing up to the request: the page after the save, and the layers
\* posted to /draw
startDrawing(e) ==
    LET e1 == saveCurrentLayerState(e)
        previewScale == preview_transform(e.drawingArea.area).scale
    IN  [page |-> e1, layers |-> layers_to_send(e1.layers, previewScale)]

\* reprocessLayer gets past its first test
reprocess_enabled(e) ==
    /\ HasLayer(e, e.activeLayerIndex)
    /\ e.layers[e.activeLayerIndex + 1].imageData

\* reprocessLayer after the /process response: held is the place in layers
\* (1-based) of the layer object the function took before the request, 0
\* when that object is no longer in layers
reprocess_response(e, held, paths) ==
    LET e1 == IF held > 0 THEN [e EXCEPT !.layers[held].paths = paths] ELSE e
    IN  [e1 EXCEPT !.processedPaths = Some(paths)]

\* bounding box, pivot, target centre and base scale computed by eraseAt
erase_frame(a, paths) ==
    LET xs == {q[1] : q \in AllPoints(paths)}
        ys == {q[2] : q \in AllPoints(paths)}
        w0 == SetMax(xs) - SetMin(xs)
        h0 == SetMax(ys) - SetMin(ys)
        pathW == IF w0 = 0 THEN 1 ELSE w0
        pathH == IF h0 = 0 THEN 1 ELSE h0
        availLeft == Max(a.left, a.top_excl_right)
        availTop == Max(a.top, a.top_excl_bottom)
        availW == a.cutout_left - availLeft - 40
        availH == a.bottom - availTop - 40
    IN  [pathCenterX |-> RAdd(RInt(SetMin(xs)), Rat(pathW, 2)),
         pathCenterY |-> RAdd(RInt(SetMin(ys)), Rat(pathH, 2)),
         areaCenterX |-> RAdd(RInt(availLeft + 20), Rat(availW, 2)),
         areaCenterY |-> RAdd(RInt(availTop + 20), Rat(availH, 2)),
         baseScale |-> RMin(Rat(availW, pathW), Rat(availH, pathH))]

\* the hit test forgets the drag offset of the layer (mutant)
transformToCanvas_no_offset(e, paths, p) ==
    LET a == e.drawingArea.area
        pv == preview_transform(a)
        fr == erase_frame(a, paths)
        x0 == RSub(RInt(p[1]), fr.pathCenterX)
        y0 == RSub(RInt(p[2]), fr.pathCenterY)
        x1 == IF e.flipHorizontal THEN RNeg(x0) ELSE x0
        y1 == IF e.flipVertical THEN RNeg(y0) ELSE y0
        cos_r == RInt(CosDeg(e.rotation))
        sin_r == RInt(SinDeg(e.rotation))
        x2 == IF e.rotation # 0
              THEN RSub(RMul(x1, cos_r), RMul(y1, sin_r)) ELSE x1
        y2 == IF e.rotation # 0
              THEN RAdd(RMul(x1, sin_r), RMul(y1, cos_r)) ELSE y1
        x3 == RAdd(RMul(x2, RMul(fr.baseScale, e.scaleX)), fr.areaCenterX)
        y3 == RAdd(RMul(y2, RMul(fr.baseScale, e.scaleY)), fr.areaCenterY)
    IN  <<RAdd(pv.offsetX, RMul(RSub(x3, RInt(a.left)), pv.scale)),
          RAdd(pv.offsetY, RMul(RSub(y3, RInt(a.top)), pv.scale))>>

\* transformToCanvas of eraseAt: the canvas position of the source point p
transformToCanvas(e, paths, p) ==
    LET a == e.drawingArea.area
        pv == preview_transform(a)
        fr == erase_frame(a, paths)
        x0 == RSub(RInt(p[1]), fr.pathCenterX)
        y0 == RSub(RInt(p[2]), fr.pathCenterY)
        x1 == IF e.flipHorizontal THEN RNeg(x0) ELSE x0
        y1 == IF e.flipVertical THEN RNeg(y0) ELSE y0
        cos_r == RInt(CosDeg(e.rotation))
        sin_r == RInt(SinDeg(e.rotation))
        x2 == IF e.rotation # 0
              THEN RSub(RMul(x1, cos_r), RMul(y1, sin_r)) ELSE x1
        y2 == IF e.rotation # 0
              THEN RAdd(RMul(x1, sin_r), RMul(y1, cos_r)) ELSE y1
        x3 == RAdd(RMul(x2, RMul(fr.baseScale, e.scaleX)), fr.areaCenterX)
        y3 == RAdd(RMul(y2, RMul(fr.baseScale, e.scaleY)), fr.areaCenterY)
        tx == RAdd(pv.offsetX, RMul(RSub(x3, RInt(a.left)), pv.scale))
        ty == RAdd(pv.offsetY, RMul(RSub(y3, RInt(a.top)), pv.scale))
    IN  <<RAdd(tx, e.imageOffset[1]), RAdd(ty, e.imageOffset[2])>>

\* dist > eraseRadius, compared on the squares over a common denominator
outside_eraser(c, canvasX, canvasY) ==
    LET dx == RSub(c[1], RInt(canvasX))
        dy == RSub(c[2], RInt(canvasY))
        den == (dx[2] * dy[2]) \div GCD(dx[2], dy[2])
        nx == dx[1] * (den \div dx[2])
        ny == dy[1] * (den \div dy[2])
        far == eraserSize * den
    IN  \/ Abs(nx) > far
        \/ Abs(ny) > far
        \/ far * far < nx * nx + ny * ny

\* the layer's paths after the eraser at (canvasX, canvasY)
erased_paths(e, paths, canvasX, canvasY) ==
    LET kept == [i \in 1..Len(paths) |->
                    SelectSeq(paths[i],
                              LAMBDA p : outside_eraser(
                                  transformToCanvas(e, paths, p),
                                  canvasX, canvasY))]
    IN  SelectSeq(kept, LAMBDA q : Len(q) >= 2)

eraseAt(e, canvasX, canvasY) ==
    IF erase_returns_early(e) THEN e
    ELSE
        LET paths == e.layers[e.activeLayerIndex + 1].paths
            history == IF erase_snapshots(e)
                       THEN history_push(e.pathsHistory, paths)
                       ELSE e.pathsHistory
            left == erased_paths(e, paths, canvasX, canvasY)
        IN  [e EXCEPT !.pathsHistory = history,
                      !.layers[e.activeLayerIndex + 1].paths = left,
                      !.processedPaths = Some(left)]

\* JavaScript's % (the result has the sign of the dividend)
JsRem(a, n) == IF a >= 0 THEN a % n ELSE 0 - ((0 - a) % n)

\* the scaleX slider; lockAspect is the state of the checkbox
setScaleX(e, value, lockAspect) ==
    IF lockAspect THEN [e EXCEPT !.scaleX = value, !.scaleY = value]
    ELSE [e EXCEPT !.scaleX = value]

setScaleY(e, value, lockAspect) ==
    IF lockAspect THEN [e EXCEPT !.scaleY = value, !.scaleX = value]
    ELSE [e EXCEPT !.scaleY = value]

rotate90(e, dir) == [e EXCEPT !.rotation = JsRem(e.rotation + dir * 90, 360)]

flipH(e) == [e EXCEPT !.flipHorizontal = ~@]

flipV(e) == [e EXCEPT !.flipVertical = ~@]

\* a drag with the move tool: mousedown, then mousemove dx, dy further
moveDrag(e, dx, dy) ==
    [e EXCEPT !.imageOffset = <<RAdd(@[1], RInt(dx)), RAdd(@[2], RInt(dy))>>]

resetPosition(e) ==
    [e EXCEPT !.imageOffset = <<RInt(0), RInt(0)>>,
              !.scaleX = RInt(1), !.scaleY = RInt(1), !.rotation = 0,
              !.flipHorizontal = FALSE, !.flipVertical = FALSE]

\* updatePreview: the canvas position at which point p of layer layerIdx
\* (0-based) is drawn
render_point(e, layerIdx, p) ==
    LET a == e.drawingArea.area
        layer == e.layers[layerIdx + 1]
        isActive == layerIdx = e.activeLayerIndex
        pv == preview_transform(a)
        fr == erase_frame(a, layer.paths)
        lScaleX == IF isActive THEN e.scaleX ELSE layer.scaleX
        lScaleY == IF isActive THEN e.scaleY ELSE layer.scaleY
        lRotation == IF isActive THEN e.rotation ELSE layer.rotation
        lFlipH == IF isActive THEN e.flipHorizontal ELSE layer.flipH
        lFlipV == IF isActive THEN e.flipVertical ELSE layer.flipV
        lOffset == IF isActive THEN e.imageOffset ELSE layer.offset
        x0 == RSub(RInt(p[1]), fr.pathCenterX)
        y0 == RSub(RInt(p[2]), fr.pathCenterY)
        x1 == IF lFlipH THEN RNeg(x0) ELSE x0
        y1 == IF lFlipV THEN RNeg(y0) ELSE y0
        x2 == IF lRotation # 0
              THEN RSub(RMul(x1, RInt(CosDeg(lRotation))),
                        RMul(y1, RInt(SinDeg(lRotation))))
              ELSE x1
        y2 == IF lRotation # 0
              THEN RAdd(RMul(x1, RInt(SinDeg(lRotation))),
                        RMul(y1, RInt(CosDeg(lRotation))))
              ELSE y1
        x3 == RAdd(RMul(x2, RMul(fr.baseScale, lScaleX)), fr.areaCenterX)
        y3 == RAdd(RMul(y2, RMul(fr.baseScale, lScaleY)), fr.areaCenterY)
    IN  <<RAdd(RAdd(pv.offsetX, RMul(RSub(x3, RInt(a.left)), pv.scale)),
               lOffset[1]),
          RAdd(RAdd(pv.offsetY, RMul(RSub(y3, RInt(a.top)), pv.scale)),
               lOffset[2])>>

\* the globals of the page as loaded
LoadedPage ==
    [layers |-> <<>>, activeLayerIndex |-> 0 - 1, processedPaths |-> Null,
     pathsHistory |-> <<>>, drawingArea |-> NoArea,
     imageOffset |-> <<RInt(0), RInt(0)>>, scaleX |-> RInt(1),
     scaleY |-> RInt(1), rotation |-> 0, flipHorizontal |-> FALSE,
     flipVertical |-> FALSE]

\* setTool: pt is the pointer state
setTool(pt, tool) == [pt EXCEPT !.currentTool = tool]

\* the pointer state after an eraseAt call made on the page e
counted_erase(pt, e) ==
    LET pushed == ~erase_returns_early(e) /\ erase_snapshots(e)
    IN  [pt EXCEPT !.erases = @ + 1,
                   !.pushes = IF pushed THEN @ + 1 ELSE @,
                   !.late = @ \/ (pushed /\ pt.erases >= 1)]

\* canvas.onmousedown (canvas.ontouchstart): [page, pointer] after it
canvas_onmousedown(e, pt, x, y) ==
    LET down == [pt EXCEPT !.isDragging = TRUE, !.erases = 0, !.pushes = 0,
                           !.late = FALSE]
    IN  IF pt.currentTool = "move"
        THEN [page |-> e,
              pointer |-> [down EXCEPT !.dragStart =
                              <<RSub(RInt(x), e.imageOffset[1]),
                                RSub(RInt(y), e.imageOffset[2])>>]]
        ELSE IF pt.currentTool = "erase"
        THEN [page |-> eraseAt(e, x, y), pointer |-> counted_erase(down, e)]
        ELSE [page |-> e, pointer |-> pt]

\* canvas.onmousemove (canvas.ontouchmove)
canvas_onmousemove(e, pt, x, y) ==
    IF ~pt.isDragging THEN [page |-> e, pointer |-> pt]
    ELSE IF pt.currentTool = "move"
    THEN [page |-> [e EXCEPT !.imageOffset =
                        <<RSub(RInt(x), pt.dragStart[1]),
                          RSub(RInt(y), pt.dragStart[2])>>],
          pointer |-> pt]
    ELSE IF pt.currentTool = "erase"
    THEN [page |-> eraseAt(e, x, y), pointer |-> counted_erase(pt, e)]
    ELSE [page |-> e, pointer |-> pt]

\* canvas.onmouseup (canvas.ontouchend, canvas.onmouseleave)
canvas_onmouseup(pt) == [pt EXCEPT !.isDragging = FALSE]

(***************************************************************************)
(* The /draw job (revodraw.py: draw.generate, stop)                        *)
(* The server is threaded: /stop runs while the generator of a /draw       *)
(* response is between two of its steps.                                   *)
(***************************************************************************)
\* STATE.get('drawing', True)
state_get_drawing(flag) == flag # "off"

\* the swipes of one path: one per pair of consecutive points
path_swipes(path) == [j \in 1..(Len(path) - 1) |-> <<path[j], path[j + 1]>>]

RECURSIVE all_swipes(_)
all_swipes(paths) ==
    IF paths = <<>> THEN <<>>
    ELSE path_swipes(Head(paths)) \o all_swipes(Tail(paths))

\* the progress reported with the path count taken before the increment (mutant)
progress_before(i, total_paths) == (i * 100) \div total_paths

\* int((i + 1) / total_paths * 100), i the 0-based index of the path just drawn
progress_after(i, total_paths) == ((i + 1) * 100) \div total_paths

\* the flag is also read between the points of a path (mutant)
reads_flag_between_points(j) == j.pc \in {"path", "swipe"}

\* the job reads the stop flag at the top of the loop over the paths only
reads_flag(j) == j.pc = "path"

\* fit is what the generator computes from area and layers before its first
\* yield (it depends on nothing else, and is kept with them from the request
\* on); stopHandled (not program state) tells that a /stop request was
\* handled while the job was running
NoJob ==
    [pc |-> "none", area |-> DrawingArea(0, 0, 0, 0, 0, 0, 0, 0),
     layers |-> <<>>, fit |-> FitResult(FALSE, <<>>, <<>>), paths |-> <<>>,
     i |-> 0, j |-> 0, stopped |-> FALSE, stopHandled |-> FALSE]

Event(kind, progress) == [kind |-> kind, progress |-> progress]

(***************************************************************************)
(* SpecFit: calls of the two fit paths on bounded inputs                   *)
(***************************************************************************)
\* the area of the concrete scenario (spec section 8, property 6)
ScenarioArea == DrawingArea(0, 0, 1000, 2000, 700, 1200, 200, 150)

\* an area with a non-zero origin, as detected on a phone screenshot
PhoneArea == DrawingArea(300, 60, 1020, 1500, 700, 1100, 240, 520)

FitAreas == {ScenarioArea, PhoneArea}

SrcCoords == {0, 100}

SrcPoints == SrcCoords \X SrcCoords

SeqsUpTo(S, n) == UNION {[1..k -> S] : k \in 1..n}

SrcPaths == SeqsUpTo(SrcPoints, MaxPathLen)

\* the second path of a two-path input: the two diagonals of the source square
SecondPaths == {<<<<0, 0>>, <<100, 100>>>>, <<<<100, 0>>, <<0, 100>>>>}

\* the square of side 100 at the source origin
SquarePath == <<<<0, 0>>, <<100, 0>>, <<100, 100>>, <<0, 100>>>>

PathLists ==
    {<<>>} \cup {<<p>> : p \in SrcPaths \cup {SquarePath}}
           \cup {<<p, q>> : p \in SrcPaths, q \in SecondPaths}
           \cup {<<<<<<100, 0>>>>, SquarePath>>}

\* (width, height) of the source image
SrcDims == {<<100, 100>>, <<200, 100>>, <<0, 100>>}

Margins == {0, 20, 350}

\* <<scale_x, scale_y, offset_x, offset_y>> of a layer: the initial transform
\* and one with unequal scales and a free-form offset
LayerTransforms ==
    {<<RInt(1), RInt(1), RInt(0), RInt(0)>>,
     <<RInt(2), Rat(1, 2), RInt(300), RInt(0 - 200)>>}

Rotations == {0, 90, 180, 0 - 90}

NoFit ==
    [fn |-> "none", area |-> ScenarioArea, img |-> ImagePaths(<<>>, 0, 0),
     margin |-> 0, aspect |-> FALSE, full |-> FALSE, layers |-> <<>>,
     point |-> <<0, 0>>,
     ret |-> FitResult(FALSE, <<>>, <<>>)]

FitIdle == fitCall = NoFit

NoCall ==
    [op |-> "none", x |-> 0, y |-> 0, ret |-> FALSE,
     margin |-> 0, safe |-> FALSE, rect |-> <<0, 0, 0, 0>>]

AreaIdle == area = ScenarioArea /\ areaCall = NoCall

NoDetect ==
    [h_clusters |-> <<>>, v_clusters |-> <<>>, warning |-> FALSE,
     slots |-> [n \in SlotNames |-> 0],
     area |-> DrawingArea(0, 0, 0, 0, 0, 0, 0, 0)]

NoCls ==
    [fn |-> "none", lines |-> <<>>, min_gap |-> 0, h_lines |-> <<>>,
     v_lines |-> <<>>, card |-> <<0, 0, 0, 0>>, clusters |-> <<>>,
     detected |-> NoDetect]

ClsIdle == clsCall = NoCls

\* the page as loaded
NoOp == [op |-> "none", pushed |-> FALSE, shifted |-> FALSE]

\* the last operation of a tracked session: its name, its arguments, the
\* globals before it, and for an undo the layer (identity) the snapshot was
\* taken from and the layer it was installed in (0: none)
NoLast ==
    [op |-> "none", x |-> 0, y |-> 0, before |-> LoadedPage, owner |-> 0,
     target |-> 0]

\* ids: the identity of each layer, in the order of layers; owners: the
\* identity of the layer each snapshot of pathsHistory was taken from
NoSession ==
    [tracked |-> FALSE, ops |-> 0, ids |-> <<>>, nextId |-> 1, owners |-> <<>>,
     last |-> NoLast]

\* the pointer state of the loaded page; erases and pushes count the eraseAt
\* calls of the gesture under way and the snapshots they saved, late tells
\* that a call other than the gesture's first saved one, handled counts the
\* pointer and tool events of a session of SpecGesture
NoPointer ==
    [isDragging |-> FALSE, dragStart |-> <<RInt(0), RInt(0)>>,
     currentTool |-> "move", erases |-> 0, pushes |-> 0, late |-> FALSE,
     handled |-> 0]

\* no request under way; layer is the identity of the layer object held by
\* the request, ids the identity of each layer in the order of layers, kept
\* the paths each identity was last given by a /process response, answered
\* tells that a reprocess response has arrived
NoReprocess ==
    [pending |-> FALSE, layer |-> 0, answered |-> FALSE, ids |-> <<>>,
     nextId |-> 1, kept |-> <<>>]

EditIdle ==
    /\ pointer = NoPointer
    /\ reprocess = NoReprocess
    /\ layers = <<>>
    /\ activeLayerIndex = 0 - 1
    /\ processedPaths = Null
    /\ pathsHistory = <<>>
    /\ drawingArea = NoArea
    /\ imageOffset = <<RInt(0), RInt(0)>>
    /\ scaleX = RInt(1)
    /\ scaleY = RInt(1)
    /\ rotation = 0
    /\ flipHorizontal = FALSE
    /\ flipVertical = FALSE
    /\ lastOp = NoOp
    /\ eraseRun = <<>>
    /\ undoRun = 0
    /\ session = NoSession

DrawIdle ==
    /\ drawing = "unset"
    /\ job = NoJob
    /\ swipes = <<>>
    /\ events = <<>>

InitFit == FitIdle /\ AreaIdle /\ ClsIdle /\ EditIdle /\ DrawIdle

ScalePathsToArea ==
    /\ fitCall.fn = "none"
    /\ \E a \in FitAreas, ps \in PathLists, d \in SrcDims, m \in Margins,
          ma \in BOOLEAN, full \in BOOLEAN :
        /\ fitCall' = [fn |-> "scale_paths_to_area", area |-> a,
                       img |-> ImagePaths(ps, d[1], d[2]), margin |-> m,
                       aspect |-> ma, full |-> full, layers |-> <<>>,
                       point |-> <<0, 0>>,
                       ret |-> scale_paths_to_area(ImagePaths(ps, d[1], d[2]),
                                                   a, m, ma, full)]
        /\ UNCHANGED <<areaVars, clsVars, editVars, drawVars>>

DrawGenerate ==
    /\ fitCall.fn = "none"
    /\ \E a \in FitAreas, ps \in PathLists, t \in LayerTransforms,
          r \in Rotations, fh \in BOOLEAN, fv \in BOOLEAN :
        LET request == <<Layer(ps, t[3], t[4], t[1], t[2], r, fh, fv)>> IN
        /\ fitCall' = [fn |-> "generate", area |-> a,
                       img |-> ImagePaths(<<>>, 0, 0), margin |-> 0,
                       aspect |-> FALSE, full |-> FALSE, layers |-> request,
                       point |-> <<0, 0>>,
                       ret |-> generate_paths(a, request)]
        /\ UNCHANGED <<areaVars, clsVars, editVars, drawVars>>

NextFit == ScalePathsToArea \/ DrawGenerate

SpecFit == InitFit /\ [][NextFit]_vars

(***************************************************************************)
(* SpecScenario: the concrete scenario (the square of side 100 fitted into *)
(* the safe lobe of the 1000 x 2000 area) under every margin 0..MaxMargin  *)
(***************************************************************************)
ScenarioFit ==
    /\ fitCall.fn = "none"
    /\ \E m \in 0..MaxMargin :
        /\ fitCall' = [fn |-> "scale_paths_to_area", area |-> ScenarioArea,
                       img |-> ImagePaths(<<SquarePath>>, 100, 100),
                       margin |-> m, aspect |-> TRUE, full |-> FALSE,
                       layers |-> <<>>, point |-> <<0, 0>>,
                       ret |-> scale_paths_to_area(
                                   ImagePaths(<<SquarePath>>, 100, 100),
                                   ScenarioArea, m, TRUE, FALSE)]
        /\ UNCHANGED <<areaVars, clsVars, editVars, drawVars>>

NextScenario == ScenarioFit

SpecScenario == InitFit /\ [][NextScenario]_vars

(***************************************************************************)
(* Claims on the path-fit engine                                           *)
(***************************************************************************)
PointsOf(paths) == AllPoints(paths)

\* C3: every point of every path output by the fit engine (one-shot or
\* per-layer) satisfies is_inside of the target area.
C3_FitContainment ==
    fitCall.fn # "none" =>
        \A q \in PointsOf(fitCall.ret.paths) :
            is_inside(fitCall.area, q[1], q[2])

\* a one-shot fit that dropped a transformed point and still returned a path
C3_Witness ==
    /\ fitCall.fn = "scale_paths_to_area"
    /\ fitCall.ret.paths # <<>>
    /\ \E q \in PointsOf(fitCall.ret.placed) :
            ~is_inside(fitCall.area, q[1], q[2])

\* the points of pts inside the area of the call
InsideCount(pts) ==
    Cardinality({j \in 1..Len(pts) : is_inside(fitCall.area, pts[j][1], pts[j][2])})

\* the index in pts of its n-th point inside the area
NthInside(pts, n) ==
    CHOOSE j \in 1..Len(pts) :
        /\ is_inside(fitCall.area, pts[j][1], pts[j][2])
        /\ InsideCount(SubSeq(pts, 1, j)) = n

\* the input paths (by index) with at least two transformed points inside
Survivors ==
    {i \in 1..Len(fitCall.ret.placed) : InsideCount(fitCall.ret.placed[i]) >= 2}

\* the n-th smallest member of Survivors
NthSurvivor(n) ==
    CHOOSE i \in Survivors : Cardinality({k \in Survivors : k <= i}) = n

\* C13: the output holds one path per input path with at least two
\* transformed points inside the area, in input order, and each is the
\* sequence of that path's inside points in their original order.
C13_OutputIsFilteredInput ==
    fitCall.fn # "none" =>
        LET out == fitCall.ret.paths IN
        /\ Len(out) = Cardinality(Survivors)
        /\ \A n \in 1..Len(out) :
                LET pts == fitCall.ret.placed[NthSurvivor(n)] IN
                /\ Len(out[n]) = InsideCount(pts)
                /\ \A m \in 1..Len(out[n]) : out[n][m] = pts[NthInside(pts, m)]

\* a one-point path followed by the square: the first gives no output, the
\* square loses a corner and is output with the rest
C13_Witness ==
    /\ fitCall.fn = "scale_paths_to_area"
    /\ Len(fitCall.ret.placed) = 2
    /\ Len(fitCall.ret.placed[1]) = 1
    /\ InsideCount(fitCall.ret.placed[1]) = 1
    /\ Len(fitCall.ret.paths) = 1
    /\ Len(fitCall.ret.paths[1]) = 3

\* the one-shot fit left the function with ZeroDivisionError
DividedByZero == fitCall.fn = "scale_paths_to_area" /\ fitCall.ret.raised

\* C14: path fitting never fails with a division by zero; a source of zero
\* width or height is fitted with the dimension clamped to 1 and a result
\* is returned.
C14_NoDivisionByZero == ~DividedByZero

IdentityLayer(l) ==
    /\ l.rotation = 0 /\ ~l.flip_h /\ ~l.flip_v
    /\ l.scale_x = RInt(1) /\ l.scale_y = RInt(1)
    /\ l.offset_x = RInt(0) /\ l.offset_y = RInt(0)

\* two placements that differ by integer rounding at most
SamePlace(p, q) == Abs(p[1] - q[1]) <= 1 /\ Abs(p[2] - q[2]) <= 1

\* the source paths fill the 100 x 100 image frame exactly
FillsFrame(paths) ==
    /\ {q[1] : q \in AllPoints(paths)} = {0, 100}
    /\ {q[2] : q \in AllPoints(paths)} = {0, 100}

\* C7: with rotation 0, no flips, scale 1.0 and offset (0, 0) the layer
\* transform places every point, up to integer rounding, where the one-shot
\* aspect-locked fit places it (same paths, same area; the image frame is
\* the paths' bounding box and the margin is 20 on both sides).
C7_IdentityLayerIsOneShot ==
    (/\ fitCall.fn = "generate"
     /\ IdentityLayer(fitCall.layers[1])
     /\ FillsFrame(fitCall.layers[1].paths)) =>
        LET ps == fitCall.layers[1].paths IN
        \A i \in 1..Len(ps) : \A j \in 1..Len(ps[i]) :
            SamePlace(fitCall.ret.placed[i][j],
                      scale_point(ImagePaths(ps, 100, 100), fitCall.area, 20,
                                  TRUE, FALSE, ps[i][j]))

NotInExclusions(a, q) ==
    /\ ~(q[1] <= a.top_excl_right /\ q[2] <= a.top_excl_bottom)
    /\ ~(q[1] >= a.cutout_left /\ q[2] >= a.cutout_top)

\* the square came back whole, centred in the safe lobe, clear of both exclusions
ScenarioHolds ==
    LET m == fitCall.margin
        out == fitCall.ret.paths
        xs == {q[1] : q \in AllPoints(out)}
        ys == {q[2] : q \in AllPoints(out)}
    IN  /\ ~fitCall.ret.raised
        /\ Len(out) = 1
        /\ Len(out[1]) = 4
        /\ out = fitCall.ret.placed
        /\ \A q \in AllPoints(out) :
                /\ m <= q[1] /\ q[1] <= 700 - m
                /\ m <= q[2] /\ q[2] <= 2000 - m
                /\ NotInExclusions(fitCall.area, q)
        /\ Abs((SetMin(xs) - m) - ((700 - m) - SetMax(xs))) <= 1
        /\ Abs((SetMin(ys) - m) - ((2000 - m) - SetMax(ys))) <= 1

Cards == {<<0, 0, 1000, 1000>>, <<40, 200, 600, 1000>>}

LinePositions == {60, 120, 130, 200, 500, 900}

Strengths == 1..MaxStrength

LinesWithin(dim) == {l \in LinePositions \X Strengths : l[1] <= dim}

LineLists(dim) == {<<>>} \cup SeqsUpTo(LinesWithin(dim), MaxLines)

\* the line lists of the axis that is not enumerated in full
FixedLineLists ==
    {<<>>, <<<<130, 1>>>>,
     <<<<500, 2>>, <<60, 1>>, <<200, 1>>, <<130, 2>>>>}

ClusterPositions == {0, 25, 30, 40, 75, 120}

ClusterInputs ==
    {<<>>} \cup SeqsUpTo(ClusterPositions \X Strengths, MaxLines)
           \cup {<<<<55, 1>>, <<25, 1>>, <<0, 2>>>>}

MinGaps == {30, 40}

ClusterLines ==
    /\ clsCall.fn = "none"
    /\ \E ls \in ClusterInputs, g \in MinGaps :
        /\ clsCall' = [NoCls EXCEPT !.fn = "cluster_lines", !.lines = ls,
                                    !.min_gap = g,
                                    !.clusters = cluster_lines(ls, g)]
        /\ UNCHANGED <<areaVars, fitVars, editVars, drawVars>>

DetectCall(h, v, card) ==
    /\ clsCall' = [NoCls EXCEPT !.fn = "detect_boundary", !.h_lines = h,
                                !.v_lines = v, !.card = card,
                                !.detected = detect_boundary(h, v, card)]
    /\ UNCHANGED <<areaVars, fitVars, editVars, drawVars>>

DetectBoundary ==
    /\ clsCall.fn = "none"
    /\ \E card \in Cards :
        \/ \E h \in LineLists(card[4]), v \in FixedLineLists :
                DetectCall(h, v, card)
        \/ \E h \in FixedLineLists, v \in LineLists(card[3]) :
                DetectCall(h, v, card)

NextClassifier == ClusterLines \/ DetectBoundary

SpecClassifier == InitFit /\ [][NextClassifier]_vars

(***************************************************************************)
(* Claims on the region classifier                                         *)
(***************************************************************************)
\* C4: the eight coordinates detect_boundary assembles satisfy
\* left < top_excl_right < right, top < top_excl_bottom < bottom,
\* left < cutout_left < right, top < cutout_top < bottom.
C4_DetectedAreaInvariant ==
    clsCall.fn = "detect_boundary" => AreaInvariant(clsCall.detected.area)

FarApart(lines, min_gap) ==
    \A i, j \in 1..Len(lines) :
        i # j => Abs(lines[i][1] - lines[j][1]) > min_gap

\* C8: on lines whose positions are pairwise farther apart than min_gap,
\* cluster_lines returns exactly one cluster per input line, with the line's
\* position and strength.
C8_SingletonsPreserved ==
    (clsCall.fn = "cluster_lines" /\ FarApart(clsCall.lines, clsCall.min_gap)) =>
        /\ Len(clsCall.clusters) = Len(clsCall.lines)
        /\ \A i \in 1..Len(clsCall.lines) :
                \E j \in 1..Len(clsCall.clusters) :
                    clsCall.clusters[j] = clsCall.lines[i]

\* far-apart lines given in descending order of position
C8_Witness ==
    /\ clsCall.fn = "cluster_lines"
    /\ Len(clsCall.lines) >= 2
    /\ FarApart(clsCall.lines, clsCall.min_gap)
    /\ clsCall.lines[1][1] > clsCall.lines[2][1]
    /\ Len(clsCall.clusters) = Len(clsCall.lines)

\* the input lines of the cluster_lines call in ascending order of position
AscendingLines ==
    LET n == Len(clsCall.lines)
        order == CHOOSE f \in [1..n -> 1..n] :
                    /\ \A i, j \in 1..n : i # j => f[i] # f[j]
                    /\ \A i \in 1..(n - 1) :
                            clsCall.lines[f[i]][1] <= clsCall.lines[f[i + 1]][1]
    IN  [i \in 1..n |-> clsCall.lines[order[i]]]

\* the places i where the line after the i-th ascending line is min_gap or
\* more above it
ClusterBreaks ==
    {i \in 1..(Len(AscendingLines) - 1) :
        AscendingLines[i + 1][1] - AscendingLines[i][1] >= clsCall.min_gap}

\* the ascending lines from..to that make up the k-th cluster
ClusterFrom(k) ==
    IF k = 1 THEN 1
    ELSE 1 + CHOOSE i \in ClusterBreaks :
                Cardinality({b \in ClusterBreaks : b <= i}) = k - 1

ClusterTo(k) ==
    IF k = Cardinality(ClusterBreaks) + 1 THEN Len(AscendingLines)
    ELSE CHOOSE i \in ClusterBreaks :
            Cardinality({b \in ClusterBreaks : b <= i}) = k

ClusterMembers(k) == SubSeq(AscendingLines, ClusterFrom(k), ClusterTo(k))

\* the clusters returned are the runs of ascending lines between the breaks,
\* each with the summed strength of its members, in strictly ascending order
\* of position
ClustersAreRuns ==
    /\ clsCall.lines = <<>> => clsCall.clusters = <<>>
    /\ clsCall.lines # <<>> =>
        /\ Len(clsCall.clusters) = Cardinality(ClusterBreaks) + 1
        /\ \A k \in 1..Len(clsCall.clusters) :
                clsCall.clusters[k][2] = SumOf(ClusterMembers(k), 2)
        /\ \A k \in 1..(Len(clsCall.clusters) - 1) :
                clsCall.clusters[k][1] < clsCall.clusters[k + 1][1]

\* C22 as claimed: cluster_lines takes the positions in ascending order, puts
\* consecutive ones in one cluster exactly when the later is less than min_gap
\* above the earlier, returns for each cluster the mean of its positions and
\* the sum of its strengths, every line in exactly one cluster, positions
\* strictly ascending.
C22_ClusterMeans ==
    clsCall.fn = "cluster_lines" =>
        /\ ClustersAreRuns
        /\ \A k \in 1..Len(clsCall.clusters) :
                clsCall.clusters[k][1] * Len(ClusterMembers(k))
                    = SumOf(ClusterMembers(k), 1)

\* C22 as amended: the same with the position of each cluster being the mean
\* of its positions truncated to an integer.
C22_ClusterTruncatedMeans ==
    clsCall.fn = "cluster_lines" =>
        /\ ClustersAreRuns
        /\ \A k \in 1..Len(clsCall.clusters) :
                LET members == ClusterMembers(k)
                    total == SumOf(members, 1)
                IN  /\ clsCall.clusters[k][1] * Len(members) <= total
                    /\ total < (clsCall.clusters[k][1] + 1) * Len(members)

\* lines given out of order that fall into two clusters, the first with a
\* mean that is not an integer, the second starting exactly min_gap above
C22_Witness ==
    /\ clsCall.fn = "cluster_lines"
    /\ clsCall.lines = <<<<55, 1>>, <<25, 1>>, <<0, 2>>>>
    /\ clsCall.min_gap = 30
    /\ clsCall.clusters = <<<<12, 3>>, <<55, 1>>>>

\* the clusters of the slot's axis whose position lies in the slot's band
InBand(slot) ==
    LET e == SlotTable[slot]
        cs == IF e.axis = "h" THEN clsCall.detected.h_clusters
              ELSE clsCall.detected.v_clusters
        dim == IF e.axis = "h" THEN clsCall.card[4] ELSE clsCall.card[3]
    IN  {cs[i] : i \in {k \in 1..Len(cs) :
                            /\ e.lo * dim <= 100 * cs[k][1]
                            /\ 100 * cs[k][1] <= e.hi * dim}}

SlotFraction(slot) ==
    LET e == SlotTable[slot]
        dim == IF e.axis = "h" THEN clsCall.card[4] ELSE clsCall.card[3]
    IN  (dim * e.est) \div 100

TrianglePath == <<<<0, 0>>, <<100, 0>>, <<100, 100>>, <<0, 0>>>>

ProcessedResults == {<<TrianglePath>>}

FileNames == {"a.png"}

\* the area the phone reports to the editor
EditorArea == DrawingArea(0, 0, 980, 1100, 640, 700, 200, 150)

\* canvas positions of the eraser: on the triangle's corner (100, 100), on
\* the corner (0, 0) of what is left once that corner is gone, and on
\* nothing
EraseCursors == {<<328, 424>>, <<148, 333>>, <<0, 0>>}

Cur ==
    [layers |-> layers, activeLayerIndex |-> activeLayerIndex,
     processedPaths |-> processedPaths, pathsHistory |-> pathsHistory,
     drawingArea |-> drawingArea, imageOffset |-> imageOffset,
     scaleX |-> scaleX, scaleY |-> scaleY, rotation |-> rotation,
     flipHorizontal |-> flipHorizontal, flipVertical |-> flipVertical]

Install(e) ==
    /\ layers' = e.layers
    /\ activeLayerIndex' = e.activeLayerIndex
    /\ processedPaths' = e.processedPaths
    /\ pathsHistory' = e.pathsHistory
    /\ drawingArea' = e.drawingArea
    /\ imageOffset' = e.imageOffset
    /\ scaleX' = e.scaleX
    /\ scaleY' = e.scaleY
    /\ rotation' = e.rotation
    /\ flipHorizontal' = e.flipHorizontal
    /\ flipVertical' = e.flipVertical

\* an operation that is neither an erase nor an undo
Other(name) ==
    /\ lastOp' = [NoOp EXCEPT !.op = name]
    /\ eraseRun' = <<>>
    /\ undoRun' = 0

NumPoints(paths) == SumOf([i \in 1..Len(paths) |-> <<Len(paths[i])>>], 1)

ActivePaths(e) ==
    IF HasLayer(e, e.activeLayerIndex)
    THEN e.layers[e.activeLayerIndex + 1].paths ELSE <<>>

\* the last MaxRun entries of run
LastOf(run) ==
    IF Len(run) > MaxRun THEN SubSeq(run, Len(run) - MaxRun + 1, Len(run))
    ELSE run

\* a tracked session has operations left (sessions that are not tracked are
\* not limited)
Budget == session.tracked => session.ops < MaxOps

\* the session record after operation op with arguments x, y
session_after(op, x, y) ==
    LET step == [session EXCEPT !.ops = @ + 1,
                                !.last = [NoLast EXCEPT !.op = op, !.x = x,
                                                        !.y = y, !.before = Cur]]
    IN  CASE op = "processImage" ->
                [step EXCEPT !.ids = Append(@, session.nextId),
                             !.nextId = @ + 1]
          [] op = "deleteLayer" -> [step EXCEPT !.ids = Splice(@, x)]
          [] op = "eraseAt" ->
                IF ~erase_returns_early(Cur) /\ erase_snapshots(Cur)
                THEN [step EXCEPT !.owners =
                        history_push(@, session.ids[activeLayerIndex + 1])]
                ELSE step
          [] op = "undoErase" ->
                IF Len(pathsHistory) > 0
                THEN [step EXCEPT
                        !.owners = SubSeq(@, 1, Len(@) - 1),
                        !.last.owner = session.owners[Len(session.owners)],
                        !.last.target = IF HasLayer(Cur, activeLayerIndex)
                                        THEN session.ids[activeLayerIndex + 1]
                                        ELSE 0]
                ELSE step
          [] OTHER -> step

Track(op, x, y) ==
    session' = IF session.tracked THEN session_after(op, x, y) ELSE session

DetectArea ==
    /\ \E e \in {[Cur EXCEPT !.drawingArea = SomeArea(EditorArea)]} : Install(e)
    /\ Other("detectArea")
    /\ Budget /\ Track("detectArea", 0, 0)
    /\ UNCHANGED <<areaVars, fitVars, clsVars, drawVars, pointer, reprocess>>

ProcessImage ==
    \E name \in FileNames, paths \in ProcessedResults :
        /\ Len(layers) < MaxLayers
        /\ \E e \in {processImage(Cur, name, paths)} : Install(e)
        /\ Other("processImage")
        /\ Budget /\ Track("processImage", 0, 0)
        /\ UNCHANGED <<areaVars, fitVars, clsVars, drawVars, pointer, reprocess>>

SelectLayer ==
    \E index \in 0..(Len(layers) - 1) :
        /\ \E e \in {selectLayer(Cur, index)} : Install(e)
        /\ Other("selectLayer")
        /\ Budget /\ Track("selectLayer", index, 0)
        /\ UNCHANGED <<areaVars, fitVars, clsVars, drawVars, pointer, reprocess>>

DeleteLayer ==
    \E index \in 0..(Len(layers) - 1) :
        /\ \E e \in {deleteLayer(Cur, index)} : Install(e)
        /\ Other("deleteLayer")
        /\ Budget /\ Track("deleteLayer", index, 0)
        /\ UNCHANGED <<areaVars, fitVars, clsVars, drawVars, pointer, reprocess>>

EraseAt ==
    \E c \in EraseCursors : \E e \in {eraseAt(Cur, c[1], c[2])} :
        LET pushed == ~erase_returns_early(Cur) /\ erase_snapshots(Cur)
            entry == [active |-> HasLayer(Cur, activeLayerIndex),
                      before |-> ActivePaths(Cur),
                      removed |-> NumPoints(ActivePaths(Cur))
                                      - NumPoints(ActivePaths(e))]
        IN  /\ Install(e)
            /\ lastOp' = [op |-> "eraseAt", pushed |-> pushed,
                          shifted |-> pushed /\ Len(pathsHistory) = MaxHistory]
            /\ eraseRun' = IF undoRun > 0 THEN <<entry>>
                           ELSE LastOf(Append(eraseRun, entry))
            /\ undoRun' = 0
            /\ Budget /\ Track("eraseAt", c[1], c[2])
            /\ UNCHANGED <<areaVars, fitVars, clsVars, drawVars, pointer, reprocess>>

UndoErase ==
    /\ \E e \in {undoErase(Cur)} : Install(e)
    /\ lastOp' = [NoOp EXCEPT !.op = "undoErase"]
    /\ IF undoRun < Len(eraseRun)
       THEN eraseRun' = eraseRun /\ undoRun' = undoRun + 1
       ELSE eraseRun' = <<>> /\ undoRun' = 0
    /\ Budget /\ Track("undoErase", 0, 0)
    /\ UNCHANGED <<areaVars, fitVars, clsVars, drawVars, pointer, reprocess>>

NextEditor ==
    \/ DetectArea
    \/ ProcessImage
    \/ SelectLayer
    \/ DeleteLayer
    \/ EraseAt
    \/ UndoErase

SpecEditor == InitFit /\ [][NextEditor]_vars

(***************************************************************************)
(* Claims on the editor                                                    *)
(***************************************************************************)
\* the erases that the undos so far have answered, oldest first
AnsweredErases ==
    SubSeq(eraseRun, Len(eraseRun) - undoRun + 1, Len(eraseRun))

\* k erases have been followed by k undos (k = undoRun) and the active
\* layer holds what it held before the first of them
RestoredByUndo == ActivePaths(Cur) = AnsweredErases[1].before

\* C5 as claimed: after k erases followed by k undos, nothing in between,
\* the active layer's path set is the one it had before the first erase.
C5_UndoRestores ==
    (undoRun >= 1 /\ AnsweredErases[1].active) => RestoredByUndo

\* C5 as amended: the same when each of the k erases removed at least one
\* point.
C5_UndoRestoresEffectiveErases ==
    (/\ undoRun >= 1
     /\ AnsweredErases[1].active
     /\ \A i \in 1..undoRun : AnsweredErases[i].removed >= 1) => RestoredByUndo

\* two erases that each removed a point, undone by two undos
C5_Witness ==
    /\ undoRun = 2
    /\ \A i \in 1..2 : AnsweredErases[i].removed >= 1
    /\ ActivePaths(Cur) = <<TrianglePath>>

\* C6: the undo stack never holds more than 20 snapshots, and an erase that
\* pushes onto a stack of 20 leaves the 19 newest followed by the new
\* snapshot.
C6_HistoryBounded ==
    /\ [](Len(pathsHistory) <= MaxHistory)
    /\ [][(/\ lastOp'.op = "eraseAt"
           /\ lastOp'.pushed
           /\ Len(pathsHistory) = MaxHistory)
          => pathsHistory' = Append(Tail(pathsHistory), ActivePaths(Cur))]_vars

\* an erase has just pushed onto a full stack
C6_Witness ==
    /\ lastOp.op = "eraseAt"
    /\ lastOp.shifted
    /\ Len(pathsHistory) = MaxHistory

(***************************************************************************)
(* SpecDraw: /draw jobs, one at a time, and /stop requests at any moment   *)
(***************************************************************************)
IdentityRequestLayer(ps) == Layer(ps, RInt(0), RInt(0), RInt(1), RInt(1), 0, FALSE, FALSE)

\* the path lists of the layers of a request; the last but one holds no
\* point, the last a single point
JobPathLists ==
    {<<>>, <<SquarePath>>, <<<<<<0, 0>>, <<100, 100>>>>>>,
     <<SquarePath, <<<<100, 0>>, <<0, 100>>>>>>, <<<<>>>>, <<<<<<0, 0>>>>>>}

JobRequests ==
    {<<>>} \cup SeqsUpTo({IdentityRequestLayer(ps) : ps \in JobPathLists},
                         MaxJobLayers)

\* POST /draw: the flag is set, the response generator is created
DrawRequest ==
    /\ job.pc \in {"none", "done"}
    /\ \E request \in JobRequests :
        job' = [NoJob EXCEPT !.pc = "start", !.area = ScenarioArea,
                             !.layers = request,
                             !.fit = generate_paths(ScenarioArea, request)]
    /\ drawing' = "on"
    /\ swipes' = <<>>
    /\ events' = <<>>
    /\ UNCHANGED <<areaVars, fitVars, clsVars, editVars>>

\* POST /stop
StopRequest ==
    /\ drawing' = "off"
    /\ UNCHANGED <<job, swipes, events>>
    /\ UNCHANGED <<areaVars, fitVars, clsVars, editVars>>

\* the generator up to its first yield: the paths of all layers are fitted
\* (j.fit) and the message or the error is yielded; [job, event] after it
job_started(j) ==
    LET fit == j.fit IN
    IF fit.raised
    THEN [job |-> [j EXCEPT !.pc = "done"], event |-> Event("error", 0)]
    ELSE [job |-> [j EXCEPT !.paths = fit.paths,
                            !.pc = IF fit.paths = <<>> THEN "complete"
                                   ELSE "path"],
          event |-> Event("message", 0)]

JobStart ==
    /\ job.pc = "start"
    /\ job' = job_started(job).job
    /\ events' = Append(events, job_started(job).event)
    /\ UNCHANGED <<drawing, swipes>>
    /\ UNCHANGED <<areaVars, fitVars, clsVars, editVars>>

\* 'Stopped' is yielded and the generator goes on to the code after the loop
JobStopped_falls_through ==
    /\ job.pc = "path"
    /\ ~state_get_drawing(drawing)
    /\ job' = [job EXCEPT !.pc = "complete", !.stopped = TRUE]
    /\ events' = Append(events, Event("stopped", 0))
    /\ UNCHANGED <<drawing, swipes>>
    /\ UNCHANGED <<areaVars, fitVars, clsVars, editVars>>

\* the flag is found cleared: 'Stopped' is yielded and the generator returns
JobStopped ==
    /\ reads_flag(job)
    /\ ~state_get_drawing(drawing)
    /\ job' = [job EXCEPT !.pc = "done", !.stopped = TRUE]
    /\ events' = Append(events, Event("stopped", 0))
    /\ UNCHANGED <<drawing, swipes>>
    /\ UNCHANGED <<areaVars, fitVars, clsVars, editVars>>

\* the flag is found set at the top of the loop: the path is started
JobPath ==
    /\ job.pc = "path"
    /\ state_get_drawing(drawing)
    /\ job' = [job EXCEPT !.pc = "swipe", !.j = 0]
    /\ UNCHANGED <<drawing, swipes, events>>
    /\ UNCHANGED <<areaVars, fitVars, clsVars, editVars>>

\* one adb swipe from point j to point j + 1 of the current path
JobSwipe ==
    /\ job.pc = "swipe"
    /\ LET path == job.paths[job.i + 1] IN
        /\ swipes' = Append(swipes, <<path[job.j + 1], path[job.j + 2]>>)
        /\ job' = [job EXCEPT !.j = @ + 1,
                              !.pc = IF job.j + 1 = Len(path) - 1
                                     THEN "progress" ELSE "swipe"]
    /\ UNCHANGED <<drawing, events>>
    /\ UNCHANGED <<areaVars, fitVars, clsVars, editVars>>

\* the progress event that follows the last swipe of a path
JobProgress ==
    /\ job.pc = "progress"
    /\ events' = Append(events,
                        Event("progress", progress_after(job.i, Len(job.paths))))
    /\ job' = [job EXCEPT !.i = @ + 1,
                          !.pc = IF job.i + 1 = Len(job.paths)
                                 THEN "complete" ELSE "path"]
    /\ UNCHANGED <<drawing, swipes>>
    /\ UNCHANGED <<areaVars, fitVars, clsVars, editVars>>

\* 'Complete!' after the loop
JobComplete ==
    /\ job.pc = "complete"
    /\ events' = Append(events, Event("complete", 100))
    /\ job' = [job EXCEPT !.pc = "done"]
    /\ UNCHANGED <<drawing, swipes>>
    /\ UNCHANGED <<areaVars, fitVars, clsVars, editVars>>

NextDraw ==
    \/ DrawRequest
    \/ StopRequest
    \/ JobStart
    \/ JobStopped
    \/ JobPath
    \/ JobSwipe
    \/ JobProgress
    \/ JobComplete

SpecDraw == InitFit /\ [][NextDraw]_vars

(***************************************************************************)
(* Claims on the /draw job                                                 *)
(***************************************************************************)
IsPrefix(s, t) == Len(s) <= Len(t) /\ s = SubSeq(t, 1, Len(s))

\* the swipes of the first k paths of the job
SwipesOfFirst(k) == all_swipes(SubSeq(job.paths, 1, k))

\* C11: the swipes a job has emitted are a prefix of the swipes of all its
\* paths, and once the job has been stopped they are the swipes of its first
\* k paths for some k (no path is left half drawn, nothing else is emitted).
C11_StopBetweenPaths ==
    /\ IsPrefix(swipes, all_swipes(job.paths))
    /\ job.stopped => \E k \in 0..Len(job.paths) : swipes = SwipesOfFirst(k)

\* a job stopped after its first path (of more than one swipe) and before
\* its last
C11_Witness ==
    /\ job.stopped
    /\ Len(job.paths) >= 2
    /\ Len(job.paths[1]) >= 3
    /\ swipes = SwipesOfFirst(1)

\* the paths whose swipes have all been emitted
CompletedPaths ==
    Cardinality({k \in 1..Len(job.paths) : IsPrefix(SwipesOfFirst(k), swipes)})

ProgressValues ==
    LET pe == SelectSeq(events, LAMBDA ev : ev.kind = "progress")
    IN  [n \in 1..Len(pe) |-> pe[n].progress]

\* C12: the job has yielded one progress event per completed path (the one
\* for the path just completed may still be due), the values are
\* non-decreasing and within 0..100, and the value after the last path is 100.
C12_ProgressPerPath ==
    LET pv == ProgressValues IN
    /\ Len(pv) = CompletedPaths - (IF job.pc = "progress" THEN 1 ELSE 0)
    /\ \A n \in 1..Len(pv) : pv[n] >= 0 /\ pv[n] <= 100
    /\ \A n \in 1..(Len(pv) - 1) : pv[n] <= pv[n + 1]
    /\ (Len(job.paths) > 0 /\ Len(pv) = Len(job.paths)) => pv[Len(pv)] = 100

\* a job of three paths run to completion
C12_Witness ==
    /\ job.pc = "done"
    /\ ~job.stopped
    /\ Len(job.paths) = 3
    /\ ProgressValues = <<33, 66, 100>>

(***************************************************************************)
(* SpecStop: the job of a /draw request while the threaded server handles  *)
(* further /draw and /stop requests                                        *)
(***************************************************************************)
JobRunning == job.pc \notin {"none", "done"}

\* POST /draw handled while the job is running: the flag is set again. The
\* job of that request runs in its own thread; it reads the flag and never
\* writes it, and its steps are not part of this specification.
FurtherDrawRequest ==
    /\ JobRunning
    /\ drawing' = "on"
    /\ UNCHANGED <<job, swipes, events>>
    /\ UNCHANGED <<areaVars, fitVars, clsVars, editVars>>

\* POST /stop handled while the job is running
StopWhileRunning ==
    /\ JobRunning
    /\ drawing' = "off"
    /\ job' = [job EXCEPT !.stopHandled = TRUE]
    /\ UNCHANGED <<swipes, events>>
    /\ UNCHANGED <<areaVars, fitVars, clsVars, editVars>>

\* POST /stop handled with no job running
StopWhileIdle == ~JobRunning /\ StopRequest

NextStop ==
    \/ DrawRequest
    \/ FurtherDrawRequest
    \/ StopWhileRunning
    \/ StopWhileIdle
    \/ JobStart
    \/ JobStopped
    \/ JobPath
    \/ JobSwipe
    \/ JobProgress
    \/ JobComplete

SpecStop == InitFit /\ [][NextStop]_vars

\* C29: once a /stop request has been handled while a job is running, the
\* job starts no further path, whatever /draw and /stop requests the server
\* handles meanwhile.
C29_NoPathAfterStop ==
    [][(job.stopHandled /\ job.pc = "path") => job'.pc # "swipe"]_vars

(***************************************************************************)
(* SpecJobLive: SpecStop with the job's thread scheduled: the thread that  *)
(* serves the response runs the generator to its end (each adb call and    *)
(* each sleep returns), so a step of the job that stays possible is taken  *)
(***************************************************************************)
JobStep ==
    \/ JobStart
    \/ JobStopped
    \/ JobPath
    \/ JobSwipe
    \/ JobProgress
    \/ JobComplete

SpecJobLive == SpecStop /\ WF_vars(JobStep)

\* the events that end a stream: 'Stopped' and 'Complete!' (done) and error
TerminalKinds == {"stopped", "complete", "error"}

TerminalCount ==
    Cardinality({n \in 1..Len(events) : events[n].kind \in TerminalKinds})

\* the fit of the job's request gives no path and raises nothing
NoSurvivingPath ==
    LET fit == generate_paths(job.area, job.layers)
    IN  ~fit.raised /\ fit.paths = <<>>

SquareAndDiagonal == <<SquarePath, <<<<0, 0>>, <<100, 100>>>>>>

StartStates ==
    LET e0 == [LoadedPage EXCEPT !.drawingArea = SomeArea(EditorArea)]
        e1 == processImage(e0, "a.png", <<TrianglePath>>)
    IN  {e1, processImage(e1, "a.png", SquareAndDiagonal)}

ScaleValues == {RInt(2)}

DragDeltas == {<<90, 90>>}

InitLayers ==
    /\ \E e \in StartStates :
        /\ layers = e.layers
        /\ activeLayerIndex = e.activeLayerIndex
        /\ processedPaths = e.processedPaths
        /\ pathsHistory = e.pathsHistory
        /\ drawingArea = e.drawingArea
        /\ imageOffset = e.imageOffset
        /\ scaleX = e.scaleX
        /\ scaleY = e.scaleY
        /\ rotation = e.rotation
        /\ flipHorizontal = e.flipHorizontal
        /\ flipVertical = e.flipVertical
        /\ pointer = NoPointer
        /\ reprocess = NoReprocess
        /\ session = [NoSession EXCEPT !.tracked = TRUE,
                                       !.ids = [k \in 1..Len(e.layers) |-> k],
                                       !.nextId = Len(e.layers) + 1]
    /\ lastOp = NoOp
    /\ eraseRun = <<>>
    /\ undoRun = 0
    /\ FitIdle /\ AreaIdle /\ ClsIdle /\ DrawIdle

\* a transform control: the globals become e
Control(name, e) ==
    /\ Install(e)
    /\ Other(name)
    /\ Budget /\ Track(name, 0, 0)
    /\ UNCHANGED <<areaVars, fitVars, clsVars, drawVars, pointer, reprocess>>

SetScaleX ==
    \E v \in ScaleValues, lockAspect \in BOOLEAN :
        \E e \in {setScaleX(Cur, v, lockAspect)} : Control("setScaleX", e)

SetScaleY ==
    \E v \in ScaleValues, lockAspect \in BOOLEAN :
        \E e \in {setScaleY(Cur, v, lockAspect)} : Control("setScaleY", e)

Rotate90 ==
    \E dir \in {1, 0 - 1} : \E e \in {rotate90(Cur, dir)} : Control("rotate90", e)

FlipH == \E e \in {flipH(Cur)} : Control("flipH", e)

FlipV == \E e \in {flipV(Cur)} : Control("flipV", e)

MoveDrag ==
    \E d \in DragDeltas :
        \E e \in {moveDrag(Cur, d[1], d[2])} : Control("moveDrag", e)

ResetPosition == \E e \in {resetPosition(Cur)} : Control("resetPosition", e)

NextLayers ==
    \/ DetectArea
    \/ ProcessImage
    \/ SelectLayer
    \/ DeleteLayer
    \/ EraseAt
    \/ UndoErase
    \/ SetScaleX
    \/ SetScaleY
    \/ Rotate90
    \/ FlipH
    \/ FlipV
    \/ MoveDrag
    \/ ResetPosition

SpecLayers == InitLayers /\ [][NextLayers]_vars

(***************************************************************************)
(* Claims on erasing, layer switching and snapshot ownership               *)
(***************************************************************************)
\* the globals before the last operation of the session
Before == session.last.before

\* point p of the layer that was active was drawn within the eraser's radius
\* of the cursor of the last erase
WasHit(p) ==
    LET c == render_point(Before, Before.activeLayerIndex, p)
        dx == RSub(c[1], RInt(session.last.x))
        dy == RSub(c[2], RInt(session.last.y))
        den == (dx[2] * dy[2]) \div GCD(dx[2], dy[2])
        nx == dx[1] * (den \div dx[2])
        ny == dy[1] * (den \div dy[2])
        reach == eraserSize * den
    IN  /\ Abs(nx) <= reach
        /\ Abs(ny) <= reach
        /\ nx * nx + ny * ny <= reach * reach

NotHitCount(pts) == Cardinality({j \in 1..Len(pts) : ~WasHit(pts[j])})

\* the index in pts of its n-th point that was not hit
NthNotHit(pts, n) ==
    CHOOSE j \in 1..Len(pts) :
        ~WasHit(pts[j]) /\ NotHitCount(SubSeq(pts, 1, j)) = n

\* the paths (by index) of the erased layer left with at least two points
ErasedSurvivors ==
    {i \in 1..Len(ActivePaths(Before)) : NotHitCount(ActivePaths(Before)[i]) >= 2}

NthErasedSurvivor(n) ==
    CHOOSE i \in ErasedSurvivors :
        Cardinality({k \in ErasedSurvivors : k <= i}) = n

\* C15: an erase leaves in the active layer, path by path and in the
\* original order, exactly the points drawn farther than the radius from the
\* cursor, without the paths left with fewer than two points; every other
\* layer is as it was.
C15_EraseRemovesHitPoints ==
    (session.last.op = "eraseAt" /\ ~erase_returns_early(Before)) =>
        LET old == ActivePaths(Before)
            new == ActivePaths(Cur)
        IN  /\ activeLayerIndex = Before.activeLayerIndex
            /\ Len(layers) = Len(Before.layers)
            /\ \A k \in 1..Len(layers) :
                    k # activeLayerIndex + 1 => layers[k] = Before.layers[k]
            /\ Len(new) = Cardinality(ErasedSurvivors)
            /\ \A n \in 1..Len(new) :
                    LET pts == old[NthErasedSurvivor(n)] IN
                    /\ Len(new[n]) = NotHitCount(pts)
                    /\ \A m \in 1..Len(new[n]) :
                            new[n][m] = pts[NthNotHit(pts, m)]

\* an erase on a layer turned by 180 degrees, with a second layer present:
\* the square lost one corner and the diagonal, left with one point, is gone
C15_Witness ==
    /\ session.last.op = "eraseAt"
    /\ Before.rotation = 180
    /\ Len(layers) = 2
    /\ ActivePaths(Before) = SquareAndDiagonal
    /\ Len(ActivePaths(Cur)) = 1
    /\ Len(ActivePaths(Cur)[1]) = 3

\* the operations that change the live transform or the working paths
LiveChanges ==
    {"setScaleX", "setScaleY", "rotate90", "flipH", "flipV", "moveDrag",
     "resetPosition", "eraseAt", "undoErase"}

\* layer k (1-based) holds the transform and the working paths that were live
\* before the last operation
HoldsLiveOfBefore(k) ==
    /\ layers[k].paths = OrEmpty(Before.processedPaths)
    /\ layers[k].offset = Before.imageOffset
    /\ layers[k].scaleX = Before.scaleX
    /\ layers[k].scaleY = Before.scaleY
    /\ layers[k].rotation = Before.rotation
    /\ layers[k].flipH = Before.flipHorizontal
    /\ layers[k].flipV = Before.flipVertical
    /\ layers[k].name = Before.layers[k].name
    /\ layers[k].imageData = Before.layers[k].imageData
    /\ layers[k].visible = Before.layers[k].visible

\* the live variables are the stored values of layer k (1-based)
LiveIsStoredOf(k) ==
    /\ processedPaths = Some(layers[k].paths)
    /\ imageOffset = layers[k].offset
    /\ scaleX = layers[k].scaleX
    /\ scaleY = layers[k].scaleY
    /\ rotation = layers[k].rotation
    /\ flipHorizontal = layers[k].flipH
    /\ flipVertical = layers[k].flipV

\* C16: selectLayer(j) while layer i is active stores the live transform and
\* the working paths into layer i, leaves the other layers as they were and
\* loads layer j's stored values into the live variables; a change of the
\* live transform or of the working paths leaves every layer other than the
\* active one unchanged.
C16_SelectSavesThenLoads ==
    /\ session.last.op = "selectLayer" =>
        LET i == Before.activeLayerIndex
            j == session.last.x
        IN  /\ Len(layers) = Len(Before.layers)
            /\ activeLayerIndex = j
            /\ HoldsLiveOfBefore(i + 1)
            /\ \A k \in 1..Len(layers) :
                    k # i + 1 => layers[k] = Before.layers[k]
            /\ LiveIsStoredOf(j + 1)
    /\ session.last.op \in LiveChanges =>
        /\ Len(layers) = Len(Before.layers)
        /\ activeLayerIndex = Before.activeLayerIndex
        /\ \A k \in 1..Len(layers) :
                k # activeLayerIndex + 1 => layers[k] = Before.layers[k]

\* a switch from a layer flipped since it was stored to the other layer
C16_Witness ==
    /\ session.last.op = "selectLayer"
    /\ Len(layers) = 2
    /\ session.last.x # Before.activeLayerIndex
    /\ Before.flipHorizontal
    /\ ~Before.layers[Before.activeLayerIndex + 1].flipH
    /\ layers[Before.activeLayerIndex + 1].flipH
    /\ ~flipHorizontal

\* C17: an undo installs in the active layer only a snapshot that was taken
\* from that same layer, and the history holds no snapshot of a deleted
\* layer.
C17_HistoryOwnedPerLayer ==
    /\ (session.last.op = "undoErase" /\ session.last.owner # 0) =>
            session.last.owner = session.last.target
    /\ \A k \in 1..Len(session.owners) :
            \E n \in 1..Len(session.ids) : session.ids[n] = session.owners[k]

(***************************************************************************)
(* SpecArea: calls of the DrawingArea methods on an arbitrary instance     *)
(***************************************************************************)
Coords == 0..MaxCoord

ProbeCoords == (0 - 1)..(MaxCoord + 1)

AreaSet ==
    {a \in [top : Coords, left : Coords, right : Coords, bottom : Coords,
            cutout_left : Coords, cutout_top : Coords,
            top_excl_right : Coords, top_excl_bottom : Coords] :
        a.left <= a.right /\ a.top <= a.bottom}

InitArea ==
    /\ area \in AreaSet
    /\ areaCall = NoCall
    /\ FitIdle
    /\ ClsIdle
    /\ EditIdle
    /\ DrawIdle

IsInsideCall ==
    /\ areaCall.op = "none"
    /\ \E x \in ProbeCoords, y \in ProbeCoords :
        /\ areaCall' = [NoCall EXCEPT !.op = "is_inside", !.x = x, !.y = y,
                                      !.ret = is_inside(area, x, y)]
        /\ UNCHANGED <<area, fitVars, clsVars, editVars, drawVars>>

CenterCall ==
    LET c == center(area) IN
        /\ areaCall.op = "none"
        /\ areaCall' = [NoCall EXCEPT !.op = "center", !.x = c[1], !.y = c[2],
                                      !.ret = is_inside(area, c[1], c[2])]
        /\ UNCHANGED <<area, fitVars, clsVars, editVars, drawVars>>

NextArea == IsInsideCall \/ CenterCall

SpecArea == InitArea /\ [][NextArea]_vars

(***************************************************************************)
(* Claims on the DrawingArea                                               *)
(***************************************************************************)
OutsideOuter(a, x, y) ==
    x < a.left \/ x > a.right \/ y < a.top \/ y > a.bottom

StrictlyInTopExcl(a, x, y) == x < a.top_excl_right /\ y < a.top_excl_bottom

StrictlyInCutout(a, x, y) == x > a.cutout_left /\ y > a.cutout_top

\* C1: is_inside is false for every point outside the outer rectangle,
\* strictly inside the top-left exclusion or strictly inside the
\* bottom-right exclusion, for every DrawingArea.
C1_ContainmentSound ==
    areaCall.op = "is_inside" =>
        ((\/ OutsideOuter(area, areaCall.x, areaCall.y)
          \/ StrictlyInTopExcl(area, areaCall.x, areaCall.y)
          \/ StrictlyInCutout(area, areaCall.x, areaCall.y))
            => areaCall.ret = FALSE)

\* a point of the outer rectangle strictly inside the top-left exclusion was asked
C1_Witness ==
    /\ areaCall.op = "is_inside"
    /\ ~OutsideOuter(area, areaCall.x, areaCall.y)
    /\ StrictlyInTopExcl(area, areaCall.x, areaCall.y)
    /\ ~StrictlyInCutout(area, areaCall.x, areaCall.y)
    /\ areaCall.ret = FALSE

\* C2: for every DrawingArea satisfying the data-model invariant, is_inside
\* of the area's own center is true.
C2_CenterInside ==
    (areaCall.op = "center" /\ AreaInvariant(area)) => areaCall.ret = TRUE

\* C25: an erase does not move what it leaves: every point of the active
\* layer that survives an eraseAt call is drawn after the erase where it was
\* drawn before it.
C25_SurvivorsStayInPlace ==
    (session.last.op = "eraseAt" /\ ~erase_returns_early(Before)) =>
        \A p \in AllPoints(ActivePaths(Cur)) :
            render_point(Cur, activeLayerIndex, p)
                = render_point(Before, Before.activeLayerIndex, p)

\* the layer that was active before the last operation
ActiveBefore == Before.layers[Before.activeLayerIndex + 1]

\* C26: deleting a layer other than the active one leaves the active layer
\* the same layer (same name and paths) and leaves the live transform and
\* the working path set unchanged.
C26_DeleteOtherKeepsActive ==
    (/\ session.last.op = "deleteLayer"
     /\ HasLayer(Before, Before.activeLayerIndex)
     /\ session.last.x # Before.activeLayerIndex) =>
        /\ HasLayer(Cur, activeLayerIndex)
        /\ layers[activeLayerIndex + 1].name = ActiveBefore.name
        /\ layers[activeLayerIndex + 1].paths = ActiveBefore.paths
        /\ processedPaths = Before.processedPaths
        /\ imageOffset = Before.imageOffset
        /\ scaleX = Before.scaleX
        /\ scaleY = Before.scaleY
        /\ rotation = Before.rotation
        /\ flipHorizontal = Before.flipHorizontal
        /\ flipVertical = Before.flipVertical

\* C28: whatever layers were added, selected and deleted, activeLayerIndex
\* is -1 exactly when there is no layer and is otherwise the index of a
\* layer, so one layer is active whenever a layer exists.
C28_ActiveIndexValid ==
    /\ (Len(layers) = 0) <=> (activeLayerIndex = 0 - 1)
    /\ Len(layers) > 0 => HasLayer(Cur, activeLayerIndex)

\* the last of two layers was active and has just been deleted: the index
\* was brought back to the layer that is left
C28_Witness ==
    /\ session.last.op = "deleteLayer"
    /\ Len(Before.layers) = 2
    /\ Before.activeLayerIndex = 1
    /\ session.last.x = 1
    /\ Len(layers) = 1
    /\ activeLayerIndex = 0

(***************************************************************************)
(* SpecBounds: get_safe_bounds and get_usable_rect on areas anchored near  *)
(* the origin, with the outer rectangle reaching Edge                      *)
(***************************************************************************)
Edge == MaxCoord + 2

BoundsCoords == 0..Edge

BoundsProbes == (0 - 1)..(Edge + 1)

BoundsMargins == {0, 1}

BoundsAreas ==
    {a \in [top : {0, 1}, left : {0, 1}, right : {Edge}, bottom : {Edge},
            cutout_left : BoundsCoords, cutout_top : BoundsCoords,
            top_excl_right : BoundsCoords, top_excl_bottom : BoundsCoords] :
        TRUE}

InitBounds ==
    /\ area \in BoundsAreas
    /\ areaCall = NoCall
    /\ FitIdle
    /\ ClsIdle
    /\ EditIdle
    /\ DrawIdle

\* is_inside asked of get_safe_bounds(margin) and of the area itself
SafeInsideCall ==
    /\ areaCall.op = "none"
    /\ \E margin \in BoundsMargins, x \in BoundsProbes, y \in BoundsProbes :
        /\ areaCall' =
             [NoCall EXCEPT !.op = "safe_inside", !.x = x, !.y = y,
                            !.margin = margin,
                            !.safe = is_inside(get_safe_bounds(area, margin), x, y),
                            !.ret = is_inside(area, x, y)]
        /\ UNCHANGED <<area, fitVars, clsVars, editVars, drawVars>>

UsableRectCall ==
    /\ areaCall.op = "none"
    /\ \E margin \in BoundsMargins :
        /\ areaCall' = [NoCall EXCEPT !.op = "usable_rect", !.margin = margin,
                                      !.rect = get_usable_rect(area, margin)]
        /\ UNCHANGED <<area, fitVars, clsVars, editVars, drawVars>>

NextBounds == SafeInsideCall \/ UsableRectCall

SpecBounds == InitBounds /\ [][NextBounds]_vars

(***************************************************************************)
(* Claims on the derived bounds                                            *)
(***************************************************************************)
\* C18: get_safe_bounds(m), m >= 0, has each outer edge moved inward by m
\* and each exclusion corner moved by m towards the middle, and every point
\* inside the safe area is inside the area itself and at least m away from
\* each outer edge.
C18_SafeBoundsInside ==
    areaCall.op = "safe_inside" =>
        LET m == areaCall.margin
            s == get_safe_bounds(area, m)
        IN  /\ s.left = area.left + m /\ s.right = area.right - m
            /\ s.top = area.top + m /\ s.bottom = area.bottom - m
            /\ s.top_excl_right = area.top_excl_right + m
            /\ s.top_excl_bottom = area.top_excl_bottom + m
            /\ s.cutout_left = area.cutout_left - m
            /\ s.cutout_top = area.cutout_top - m
            /\ areaCall.safe =>
                /\ areaCall.ret
                /\ areaCall.x - area.left >= m /\ area.right - areaCall.x >= m
                /\ areaCall.y - area.top >= m /\ area.bottom - areaCall.y >= m

\* a point inside the safe area of a positive margin, next to a point of the
\* area that the margin excludes
C18_Witness ==
    /\ areaCall.op = "safe_inside"
    /\ areaCall.margin > 0
    /\ areaCall.safe
    /\ areaCall.ret
    /\ is_inside(area, areaCall.x - 1, areaCall.y)
    /\ ~is_inside(get_safe_bounds(area, areaCall.margin),
                  areaCall.x - 1, areaCall.y)

\* the rectangles with integer corners
Rects ==
    {r \in BoundsCoords \X BoundsCoords \X BoundsCoords \X BoundsCoords :
        r[1] <= r[3] /\ r[2] <= r[4]}

RectArea(r) == (r[3] - r[1]) * (r[4] - r[2])

\* every point of r is inside a
RectInside(a, r) ==
    \A x \in r[1]..r[3], y \in r[2]..r[4] : is_inside(a, x, y)

\* r lies in the outer rectangle shrunk by m and avoids both exclusions
RectAllowed(a, m, r) ==
    /\ a.left + m <= r[1] /\ r[3] <= a.right - m
    /\ a.top + m <= r[2] /\ r[4] <= a.bottom - m
    /\ RectInside(a, r)

\* C19: for an area satisfying the data-model invariant, every point of
\* get_usable_rect(margin) is inside the area, and no rectangle of larger
\* area lies in the outer rectangle shrunk by margin and avoids both
\* exclusions.
C19_UsableRectLargest ==
    (areaCall.op = "usable_rect" /\ AreaInvariant(area)) =>
        /\ RectInside(area, areaCall.rect)
        /\ \A r \in Rects :
                RectAllowed(area, areaCall.margin, r) =>
                    RectArea(r) <= RectArea(areaCall.rect)

(***************************************************************************)
(* SpecCentre: scale_paths_to_area on one point of the source frame, in    *)
(* double arithmetic                                                       *)
(***************************************************************************)
CentreDims == {<<100, 100>>, <<200, 100>>, <<287, 287>>, <<64, 160>>}

CentreMargins == {0, 20, 25}

\* the corners and the middle of the source frame
FramePoints(d) ==
    ({0, d[1]} \X {0, d[2]}) \cup {<<d[1] \div 2, d[2] \div 2>>}

PlaceFramePoint ==
    /\ fitCall.fn = "none"
    /\ \E a \in FitAreas, d \in CentreDims, m \in CentreMargins,
          ma \in BOOLEAN, full \in BOOLEAN :
        \E p \in FramePoints(d) :
            LET img == ImagePaths(<<<<p, p>>>>, d[1], d[2])
                q == place_frame_point(img, a, m, ma, full, p)
            IN
            /\ fitCall' = [NoFit EXCEPT !.fn = "place_frame_point", !.area = a,
                                        !.img = img, !.margin = m,
                                        !.aspect = ma, !.full = full,
                                        !.point = p,
                                        !.ret = FitResult(FALSE, <<<<q, q>>>>,
                                                    <<keep_inside(a, <<q, q>>)>>)]
            /\ UNCHANGED <<areaVars, clsVars, editVars, drawVars>>

NextCentre == PlaceFramePoint

SpecCentre == InitFit /\ [][NextCentre]_vars

(***************************************************************************)
(* Claims on the centring                                                  *)
(***************************************************************************)
\* the width the claim measures: up to cutout_left, or up to right when the
\* whole area is used
ClaimedWidth ==
    (IF fitCall.full THEN fitCall.area.right ELSE fitCall.area.cutout_left)
        - fitCall.area.left - 2 * fitCall.margin

ClaimedHeight == fitCall.area.bottom - fitCall.area.top - 2 * fitCall.margin

\* the point was placed within one pixel of where one scale s on both axes,
\* with the frame centred (equal slack on both sides of each axis), puts it
CentredWithScale(s) ==
    LET img == fitCall.img
        slack_x == RDiv(RSub(RInt(ClaimedWidth), RMul(RInt(img.width), s)), RInt(2))
        slack_y == RDiv(RSub(RInt(ClaimedHeight), RMul(RInt(img.height), s)), RInt(2))
        ex == RAdd(RAdd(RInt(fitCall.area.left + fitCall.margin), slack_x),
                   RMul(RInt(fitCall.point[1]), s))
        ey == RAdd(RAdd(RInt(fitCall.area.top + fitCall.margin), slack_y),
                   RMul(RInt(fitCall.point[2]), s))
        q == fitCall.ret.placed[1][1]
    IN  /\ RLe(RInt(0), slack_x) /\ RLe(RInt(0), slack_y)
        /\ RLe(RInt(q[1] - 1), ex) /\ RLe(ex, RInt(q[1] + 1))
        /\ RLe(RInt(q[2] - 1), ey) /\ RLe(ey, RInt(q[2] + 1))

\* C20: with aspect lock, positive source dimensions and a positive
\* available rectangle, a point of the source frame is placed by the scale
\* min(availW/srcW, availH/srcH) on both axes with the frame centred, inside
\* [left+margin, left+margin+availW] x [top+margin, top+margin+availH],
\* availW measured to cutout_left, or to right with use_full_area.
C20_CentredInsideAvailable ==
    (/\ fitCall.fn = "place_frame_point" /\ fitCall.aspect
     /\ fitCall.img.width > 0 /\ fitCall.img.height > 0
     /\ ClaimedWidth > 0 /\ ClaimedHeight > 0) =>
        LET q == fitCall.ret.placed[1][1]
            x_lo == fitCall.area.left + fitCall.margin
            y_lo == fitCall.area.top + fitCall.margin
        IN  /\ CentredWithScale(RMin(Rat(ClaimedWidth, fitCall.img.width),
                                     Rat(ClaimedHeight, fitCall.img.height)))
            /\ x_lo <= q[1] /\ q[1] <= x_lo + ClaimedWidth
            /\ y_lo <= q[2] /\ q[2] <= y_lo + ClaimedHeight

(***************************************************************************)
(* SpecGesture: the tool buttons and the pointer on the canvas, in         *)
(* sessions of at most MaxEvents events on a page with the area detected   *)
(* and one or two images processed                                         *)
(***************************************************************************)
Tools == {"move", "erase"}

InitGesture ==
    /\ \E e \in StartStates :
        /\ layers = e.layers
        /\ activeLayerIndex = e.activeLayerIndex
        /\ processedPaths = e.processedPaths
        /\ pathsHistory = e.pathsHistory
        /\ drawingArea = e.drawingArea
        /\ imageOffset = e.imageOffset
        /\ scaleX = e.scaleX
        /\ scaleY = e.scaleY
        /\ rotation = e.rotation
        /\ flipHorizontal = e.flipHorizontal
        /\ flipVertical = e.flipVertical
    /\ pointer = NoPointer
    /\ reprocess = NoReprocess
    /\ session = NoSession
    /\ lastOp = NoOp
    /\ eraseRun = <<>>
    /\ undoRun = 0
    /\ FitIdle /\ AreaIdle /\ ClsIdle /\ DrawIdle

\* an event of the session: the page becomes r.page and the pointer r.pointer
Handled(name, r) ==
    /\ pointer.handled < MaxEvents
    /\ Install(r.page)
    /\ pointer' = [r.pointer EXCEPT !.handled = @ + 1]
    /\ Other(name)
    /\ UNCHANGED <<areaVars, fitVars, clsVars, drawVars, session, reprocess>>

SetTool ==
    \E tool \in Tools :
        Handled("setTool", [page |-> Cur, pointer |-> setTool(pointer, tool)])

MouseDown ==
    /\ ~pointer.isDragging
    /\ \E c \in EraseCursors :
        Handled("mousedown", canvas_onmousedown(Cur, pointer, c[1], c[2]))

MouseMove ==
    /\ pointer.isDragging
    /\ \E c \in EraseCursors :
        Handled("mousemove", canvas_onmousemove(Cur, pointer, c[1], c[2]))

MouseUp ==
    /\ pointer.isDragging
    /\ Handled("mouseup", [page |-> Cur, pointer |-> canvas_onmouseup(pointer)])

NextGesture == SetTool \/ MouseDown \/ MouseMove \/ MouseUp

SpecGesture == InitGesture /\ [][NextGesture]_vars

(***************************************************************************)
(* Claims on the erase gesture                                             *)
(***************************************************************************)
\* C21: during one erase gesture (pointer down, moves, pointer up) the undo
\* stack receives at most one snapshot, and none from an eraseAt call after
\* the gesture's first.
C21_OneSnapshotPerGesture == pointer.pushes <= 1 /\ ~pointer.late

(***************************************************************************)
(* SpecPivot: /draw requests of one layer whose paths hold their own pivot *)
(***************************************************************************)
\* path sets with a point at the centre of their bounding box: (50,50) for
\* the first and the third, (100,50) for the second
PivotPathLists ==
    {<<<<<<0, 0>>, <<50, 50>>, <<100, 100>>>>, <<<<100, 0>>, <<0, 100>>>>>>,
     <<<<<<0, 0>>, <<100, 50>>, <<200, 100>>>>>>,
     <<<<<<50, 50>>, <<0, 100>>>>, <<<<100, 0>>, <<50, 50>>>>>>}

\* <<scale_x, scale_y, offset_x, offset_y>>: those of SpecFit and one whose
\* offset is not a whole number of pixels (the page sends imageOffset divided
\* by the preview scale)
PivotTransforms ==
    LayerTransforms \cup {<<Rat(3, 2), RInt(1), Rat(45, 2), Rat(0 - 70, 3)>>}

GenerateLayer ==
    /\ fitCall.fn = "none"
    /\ \E a \in FitAreas, ps \in PivotPathLists, t \in PivotTransforms,
          r \in Rotations, fh \in BOOLEAN, fv \in BOOLEAN :
        LET request == <<Layer(ps, t[3], t[4], t[1], t[2], r, fh, fv)>> IN
        /\ fitCall' = [NoFit EXCEPT !.fn = "generate", !.area = a,
                                    !.layers = request,
                                    !.ret = generate_paths(a, request)]
        /\ UNCHANGED <<areaVars, clsVars, editVars, drawVars>>

NextPivot == GenerateLayer

SpecPivot == InitFit /\ [][NextPivot]_vars

(***************************************************************************)
(* Claims on the layer transform                                           *)
(***************************************************************************)
\* the pivot of the request's layer: the centre of the bounding box of its paths
Pivot ==
    LET pb == path_bounds(fitCall.area, fitCall.layers[1].paths)
    IN  <<pb.path_center_x, pb.path_center_y>>

\* the displacement of the source point p from the pivot
Displacement(p) == <<RSub(RInt(p[1]), Pivot[1]), RSub(RInt(p[2]), Pivot[2])>>

\* d mirrored as the layer's flips say
Flipped(d) ==
    LET l == fitCall.layers[1]
    IN  <<IF l.flip_h THEN RNeg(d[1]) ELSE d[1],
          IF l.flip_v THEN RNeg(d[2]) ELSE d[2]>>

\* d turned by the layer's rotation, a whole number of quarter turns
QuarterTurned(d) ==
    LET r == fitCall.layers[1].rotation % 360
    IN  CASE r = 0   -> d
          [] r = 90  -> <<RNeg(d[2]), d[1]>>
          [] r = 180 -> <<RNeg(d[1]), RNeg(d[2])>>
          [] r = 270 -> <<d[2], RNeg(d[1])>>

\* d stretched by base_scale * scale_x and base_scale * scale_y
Stretched(d) ==
    LET l == fitCall.layers[1]
        pb == path_bounds(fitCall.area, l.paths)
    IN  <<RMul(d[1], RMul(pb.base_scale, l.scale_x)),
          RMul(d[2], RMul(pb.base_scale, l.scale_y))>>

\* the centre of the available rectangle plus the layer's offset
TargetCentre ==
    LET av == avail_rect(fitCall.area)
        l == fitCall.layers[1]
    IN  <<RAdd(av.center_x, l.offset_x), RAdd(av.center_y, l.offset_y)>>

\* d carried to the target centre, as whole pixels
Pixel(d) ==
    <<Trunc(RAdd(TargetCentre[1], d[1])), Trunc(RAdd(TargetCentre[2], d[2]))>>

\* the points of the request's layer, as <<path index, point index>>
LayerPointIds ==
    {<<i, j>> \in (1..3) \X (1..3) :
        /\ i <= Len(fitCall.layers[1].paths)
        /\ j <= Len(fitCall.layers[1].paths[i])}

\* the pixel out is within one pixel of the pixel q on each axis (the job
\* computes in doubles, whose products can fall just below a whole number)
NearPixel(out, q) == Abs(out[1] - q[1]) <= 1 /\ Abs(out[2] - q[2]) <= 1

DiagonalPath == <<<<0, 0>>, <<100, 100>>>>

\* what a layer of a page holds: nothing (all erased), the square, a
\* diagonal, the square with that diagonal
ComposePaths == {<<>>, <<SquarePath>>, <<DiagonalPath>>, <<SquarePath, DiagonalPath>>}

\* the controls used on a layer: none, or the scaleX slider at 1/2 (aspect
\* unlocked), a quarter turn, a horizontal flip and a drag
ComposeSettings ==
    {[scale |-> RInt(1), turns |-> 0, flip |-> FALSE, drag |-> <<0, 0>>],
     [scale |-> Rat(1, 2), turns |-> 1, flip |-> TRUE, drag |-> <<45, 0 - 45>>]}

ComposeLayers ==
    [paths : ComposePaths, settings : ComposeSettings, visible : BOOLEAN]

\* a visible square, a hidden diagonal, a visible transformed diagonal
ThreeLayers ==
    <<[paths |-> <<SquarePath>>,
       settings |-> [scale |-> RInt(1), turns |-> 0, flip |-> FALSE,
                     drag |-> <<0, 0>>],
       visible |-> TRUE],
      [paths |-> <<DiagonalPath>>,
       settings |-> [scale |-> RInt(1), turns |-> 0, flip |-> FALSE,
                     drag |-> <<0, 0>>],
       visible |-> FALSE],
      [paths |-> <<DiagonalPath>>,
       settings |-> [scale |-> Rat(1, 2), turns |-> 1, flip |-> TRUE,
                     drag |-> <<45, 0 - 45>>],
       visible |-> TRUE]>>

ComposeLists == SeqsUpTo(ComposeLayers, MaxJobLayers) \cup {ThreeLayers}

\* the page after the last layer was added and its controls were used
with_settings(e, c) ==
    LET e1 == setScaleX(e, c.settings.scale, FALSE)
        e2 == IF c.settings.turns = 1 THEN rotate90(e1, 1) ELSE e1
        e3 == IF c.settings.flip THEN flipH(e2) ELSE e2
        e4 == moveDrag(e3, c.settings.drag[1], c.settings.drag[2])
        e5 == IF c.paths = <<>> THEN [e4 EXCEPT !.processedPaths = Some(<<>>)]
              ELSE e4
    IN  IF c.visible THEN e5 ELSE toggleLayerVisibility(e5, e5.activeLayerIndex)

\* the page built layer by layer; a layer that holds nothing was processed as
\* the square and then erased
RECURSIVE PageOf(_)
PageOf(cs) ==
    IF cs = <<>> THEN [LoadedPage EXCEPT !.drawingArea = SomeArea(EditorArea)]
    ELSE LET c == cs[Len(cs)]
             e0 == PageOf(SubSeq(cs, 1, Len(cs) - 1))
             e1 == processImage(e0, "a.png",
                                IF c.paths = <<>> THEN <<SquarePath>> ELSE c.paths)
         IN  with_settings(
                IF c.paths = <<>>
                THEN [e1 EXCEPT !.layers[e1.activeLayerIndex + 1].paths = <<>>]
                ELSE e1, c)

\* the click on the draw button, up to the paths the job fits
StartDrawing ==
    /\ fitCall.fn = "none"
    /\ \E cs \in ComposeLists :
        /\ draw_enabled(PageOf(cs))
        /\ LET sd == startDrawing(PageOf(cs))
               a == sd.page.drawingArea.area
           IN  fitCall' = [NoFit EXCEPT !.fn = "startDrawing", !.area = a,
                                        !.layers = sd.page.layers,
                                        !.ret = generate_paths(a, sd.layers)]
    /\ UNCHANGED <<areaVars, clsVars, editVars, drawVars>>

NextCompose == StartDrawing

SpecCompose == InitFit /\ [][NextCompose]_vars

(***************************************************************************)
(* Claims on multi-layer composition                                       *)
(***************************************************************************)
\* how many times the path q occurs in paths
Occurrences(paths, q) == Cardinality({n \in 1..Len(paths) : paths[n] = q})

\* the paths a job fits for the layer k of the page when it is sent alone
\* (none when the layer is hidden)
AloneOutput(k) ==
    LET l == fitCall.layers[k]
        previewScale == preview_transform(fitCall.area).scale
    IN  IF l.visible
        THEN generate_paths(fitCall.area,
                            <<layer_to_send(l, previewScale)>>).paths
        ELSE <<>>

RECURSIVE AloneOutputs(_)
AloneOutputs(k) == IF k = 0 THEN <<>> ELSE AloneOutputs(k - 1) \o AloneOutput(k)

\* the paths the job fits when the page's layers are in the opposite order
ReversedOutput ==
    LET n == Len(fitCall.layers)
        reversed == [k \in 1..n |-> fitCall.layers[n + 1 - k]]
        previewScale == preview_transform(fitCall.area).scale
    IN  generate_paths(fitCall.area, layers_to_send(reversed, previewScale)).paths

\* C24: the paths of a job for a page of layers are, path for path, those
\* each visible layer yields when sent alone with its own parameters (a
\* hidden layer yields none), and they are the same paths, in another order,
\* when the layers are in the opposite order.
C24_LayersAdditive ==
    fitCall.fn = "startDrawing" =>
        LET out == fitCall.ret.paths
            alone == AloneOutputs(Len(fitCall.layers))
        IN  /\ ~fitCall.ret.raised
            /\ out = alone
            /\ Len(ReversedOutput) = Len(out)
            /\ \A n \in 1..Len(out) :
                    Occurrences(ReversedOutput, out[n]) = Occurrences(out, out[n])

\* a page of three layers, the second hidden, the first and the third with
\* different transforms, each of the two giving a path of the job
C24_Witness ==
    /\ fitCall.fn = "startDrawing"
    /\ Len(fitCall.layers) = 3
    /\ ~fitCall.layers[2].visible
    /\ fitCall.layers[2].paths # <<>>
    /\ fitCall.layers[1].rotation # fitCall.layers[3].rotation
    /\ AloneOutput(1) # <<>>
    /\ AloneOutput(3) # <<>>
    /\ Len(fitCall.ret.paths) = Len(AloneOutput(1)) + Len(AloneOutput(3))

(***************************************************************************)
(* SpecReprocess: reprocessLayer's request under way while layers are      *)
(* selected, added and deleted                                             *)
(***************************************************************************)
\* what /process answers to a reprocess request
ReprocessedResults == {<<DiagonalPath>>}

InitReprocess ==
    /\ \E e \in StartStates :
        /\ layers = e.layers
        /\ activeLayerIndex = e.activeLayerIndex
        /\ processedPaths = e.processedPaths
        /\ pathsHistory = e.pathsHistory
        /\ drawingArea = e.drawingArea
        /\ imageOffset = e.imageOffset
        /\ scaleX = e.scaleX
        /\ scaleY = e.scaleY
        /\ rotation = e.rotation
        /\ flipHorizontal = e.flipHorizontal
        /\ flipVertical = e.flipVertical
        /\ reprocess = [NoReprocess EXCEPT
                            !.ids = [k \in 1..Len(e.layers) |-> k],
                            !.nextId = Len(e.layers) + 1,
                            !.kept = [k \in 1..Len(e.layers) |-> e.layers[k].paths]]
    /\ pointer = NoPointer
    /\ session = NoSession
    /\ lastOp = NoOp
    /\ eraseRun = <<>>
    /\ undoRun = 0
    /\ FitIdle /\ AreaIdle /\ ClsIdle /\ DrawIdle

\* a step of the page: it becomes e, the request and the identities become rp
Stepped(name, e, rp) ==
    /\ Install(e)
    /\ reprocess' = rp
    /\ Other(name)
    /\ UNCHANGED <<areaVars, fitVars, clsVars, drawVars, pointer, session>>

\* where the layer object held by the request is in layers (0: nowhere)
HeldIndex ==
    IF \E k \in 1..Len(layers) : reprocess.ids[k] = reprocess.layer
    THEN CHOOSE k \in 1..Len(layers) : reprocess.ids[k] = reprocess.layer
    ELSE 0

\* the click on the reprocess button, up to the fetch
ReprocessRequest ==
    /\ ~reprocess.pending
    /\ reprocess_enabled(Cur)
    /\ Stepped("reprocessLayer", Cur,
               [reprocess EXCEPT !.pending = TRUE,
                                 !.layer = reprocess.ids[activeLayerIndex + 1]])

\* the response arrives with paths
ReprocessResponse ==
    /\ reprocess.pending
    /\ \E paths \in ReprocessedResults :
        Stepped("reprocessResponse", reprocess_response(Cur, HeldIndex, paths),
                [reprocess EXCEPT !.pending = FALSE, !.answered = TRUE,
                                  !.kept[reprocess.layer] = paths])

\* the response arrives with an error
ReprocessError ==
    /\ reprocess.pending
    /\ Stepped("reprocessError", Cur, [reprocess EXCEPT !.pending = FALSE])

SelectWhilePending ==
    \E index \in 0..(Len(layers) - 1) :
        Stepped("selectLayer", selectLayer(Cur, index), reprocess)

AddWhilePending ==
    /\ Len(layers) < MaxLayers
    /\ reprocess.nextId <= MaxLayers + 1
    /\ \E name \in FileNames, paths \in ProcessedResults :
        Stepped("processImage", processImage(Cur, name, paths),
                [reprocess EXCEPT !.ids = Append(@, reprocess.nextId),
                                  !.nextId = @ + 1,
                                  !.kept = Append(@, paths)])

DeleteWhilePending ==
    \E index \in 0..(Len(layers) - 1) :
        Stepped("deleteLayer", deleteLayer(Cur, index),
                [reprocess EXCEPT !.ids = Splice(@, index)])

NextReprocess ==
    \/ ReprocessRequest
    \/ ReprocessResponse
    \/ ReprocessError
    \/ SelectWhilePending
    \/ AddWhilePending
    \/ DeleteWhilePending

SpecReprocess == InitReprocess /\ [][NextReprocess]_vars

(***************************************************************************)
(* Claims on reprocessLayer                                                *)
(***************************************************************************)
\* C27: once a reprocess response has arrived, whatever was selected, added
\* or deleted while the request was under way and whatever is selected
\* afterwards, every layer other than the reprocessed one holds the paths
\* its own /process response gave it.
C27_ReprocessChangesOneLayer ==
    reprocess.answered =>
        \A k \in 1..Len(layers) :
            reprocess.ids[k] # reprocess.layer
                => layers[k].paths = reprocess.kept[reprocess.ids[k]]

====
